---- MODULE Spec2Model ----
(***************************************************************************)
(* State-machine model of the strata-mcp session / dispatch layer:         *)
(* McpSession (src/src/session.rs), the curated agent tools                *)
(* (src/src/tools/agent.rs), the developer-mode routing of the tool        *)
(* registry (src/src/tools/mod.rs) and the value codec                     *)
(* (src/src/convert.rs).  The backing store (the stratadb crate) is the    *)
(* environment: it keeps a set of branches and versioned documents, and    *)
(* it may fail any command it is handed.                                   *)
(***************************************************************************)
EXTENDS Integers, Sequences, FiniteSets, TLC

VARIABLES
    branch,          \* McpSession.branch
    space,           \* McpSession.space
    in_transaction,  \* McpSession.in_transaction
    readOnly,        \* strata.access_mode() = ReadOnly (fixed when the store is opened)
    txnIsWrite,      \* Command::is_write() of the transaction and service commands (fixed, store-defined)
    store,           \* the backing store: [branches, docs, events]
    lastCall,        \* the operation that ran last and its input
    lastResult,      \* what it returned
    storeLog,        \* the calls it forwarded to the store, in order
    phase,           \* progress of the last calls along Begin, write, Commit / Begin, Abort
    inflight         \* the requests the server has read and not yet answered

vars == <<branch, space, in_transaction, readOnly, txnIsWrite, store,
          lastCall, lastResult, storeLog, phase, inflight>>

----------------------------------------------------------------------------
(* Bounds of the model. *)

\* Highest number of document versions and events the store holds, over all
\* documents and branches.
MaxWrites == 1

\* The width of the machine integers (64 in the program), the width of a
\* float's mantissa (53 in the program), scaled down together, and the
\* longest array and the most keys of an object the codec is given.
IntBits == 4
MantissaBits == 2
MaxLen == 2

\* The branch and space a new session starts in.
DefaultBranch == "default"
DefaultSpace == "default"

BranchNames == {DefaultBranch, "b1"}
SpaceNames == {DefaultSpace, "s1"}
Keys == {"a"}

None == "-"

----------------------------------------------------------------------------
(* Commands and outputs exchanged with the store. *)

ReadCommands == {"JsonGet", "JsonGetv", "Search", "TimeRange", "Info",
                 "EmbedStatus", "BranchList", "BranchExists"}
DataWriteCommands == {"JsonSet", "JsonDelete", "EventAppend"}
BranchWriteCommands == {"BranchCreate", "BranchDelete"}
TxnCommands == {"TxnBegin", "TxnCommit", "TxnAbort"}
\* The commands of the embedding, inference, model, retention and durability
\* tools.
ServiceCommands == {"Embed", "EmbedBatch", "Generate", "Tokenize", "Detokenize",
                    "GenerateUnload", "ModelsList", "ModelsPull", "ModelsLocal",
                    "RetentionApply", "DurabilityCounters"}
CommandNames == ReadCommands \cup DataWriteCommands \cup BranchWriteCommands
                    \cup TxnCommands \cup ServiceCommands

\* A command: its name, the branch and space it carries and its key.
Cmd(n, b, s, k) == [branch |-> b, space |-> s, name |-> n, key |-> k, arg |-> None]
NoCmd == Cmd(None, None, None, None)

\* A call of the store's branch API (fork, diff, merge) on branches a and b.
ApiCall(n, a, b) == [branch |-> a, space |-> None, name |-> n, key |-> None, arg |-> b]

\* Command::is_write(): the static classification the read-only guard reads.
IsWrite(cmd) ==
    \/ cmd.name \in DataWriteCommands \cup BranchWriteCommands
    \/ cmd.name \in TxnCommands \cup ServiceCommands /\ txnIsWrite

\* Results.  ok: an Output variant (or a tool's JSON shape) and its payload;
\* not ok: an McpError kind, its code and the name it carries.
Ok(kind, val) == [kind |-> kind, val |-> val, ok |-> TRUE, code |-> None]
Err(kind, code, val) == [kind |-> kind, val |-> val, ok |-> FALSE, code |-> code]
StoreError == Err("Strata", "STORE_ERROR", None)
NoResult == Ok(None, None)

TxnBoundaryOutputs == {"TxnBegun", "TxnCommitted", "TxnAborted"}

----------------------------------------------------------------------------
(* The backing store. *)

Locs == BranchNames \X SpaceNames \X Keys
\* A document: the versions written to it, oldest first, each a
\* VersionedValue, and whether it has not been deleted since the last write.
NoDoc == [vals |-> <<>>, live |-> FALSE]

\* The VersionedValue the store keeps for a write.
VersionedValue(value, version, timestamp) ==
    [value |-> value, version |-> version, timestamp |-> timestamp]

InitStore ==
    [branches |-> {DefaultBranch},
     docs     |-> [l \in Locs |-> NoDoc],
     events   |-> 0]

\* The name BranchCreate gives the new branch: the one asked for, or one the
\* store generates when none is given.
NewBranchName(st, asked) ==
    IF asked # None THEN asked
    ELSE IF BranchNames \ st.branches = {} THEN None
    ELSE CHOOSE n \in BranchNames \ st.branches : TRUE

\* The number of document versions the store holds at the locations ls.
RECURSIVE TotalVersions(_, _)
TotalVersions(st, ls) ==
    IF ls = {} THEN 0
    ELSE LET l == CHOOSE x \in ls : TRUE IN
         Len(st.docs[l].vals) + TotalVersions(st, ls \ {l})

\* The timestamp the store gives a write.  The store's clock is its own; the
\* model stamps a version of a document with the version's number.
Timestamp(st, version) == version

\* The output the store gives a service command it serves.
ServiceOutput(name) ==
    CASE name = "Embed" -> "Embedding"
      [] name = "EmbedBatch" -> "Embeddings"
      [] name = "Generate" -> "Generated"
      [] name = "Tokenize" -> "TokenIds"
      [] name = "Detokenize" -> "Text"
      [] name = "GenerateUnload" -> "Bool"
      [] name \in {"ModelsList", "ModelsLocal"} -> "ModelsList"
      [] name = "ModelsPull" -> "ModelsPulled"
      [] name = "RetentionApply" -> "Unit"
      [] name = "DurabilityCounters" -> "DurabilityCounters"

\* The store's answer to one command in state st.  resp is the environment's
\* choice: "ok" (the command is served), "err" (the store fails it) or "odd"
\* (an output of a shape the caller does not expect).  A failed command leaves
\* the store as it was.  Whether the store takes a TxnBegin, TxnCommit or
\* TxnAbort is the store's own rule: it may serve or fail each of them in
\* every state.  The service commands (embedding, inference, models,
\* retention, durability) are answered without a change of the branches,
\* documents and events.  A deleted document keeps its versions.
StoreExecute(st, cmd, resp) ==
    LET fail == [st |-> st, out |-> StoreError]
        loc  == <<cmd.branch, cmd.space, cmd.key>>
    IN
    IF resp = "err" THEN fail
    ELSE IF resp = "odd" THEN [st |-> st, out |-> Ok("Unit", None)]
    ELSE CASE cmd.name = "BranchExists" ->
                [st |-> st, out |-> Ok("Bool", cmd.branch \in st.branches)]
           [] cmd.name = "BranchList" ->
                [st |-> st, out |-> Ok("BranchInfoList", st.branches)]
           [] cmd.name = "BranchCreate" ->
                LET new == NewBranchName(st, cmd.branch) IN
                IF new \in st.branches \/ new = None THEN fail
                ELSE [st  |-> [st EXCEPT !.branches = @ \cup {new}],
                      out |-> Ok("BranchWithVersion", new)]
           [] cmd.name = "BranchDelete" ->
                IF cmd.branch \notin st.branches \/ cmd.branch = DefaultBranch
                THEN fail
                ELSE [st  |-> [branches |-> st.branches \ {cmd.branch},
                               docs     |-> [l \in Locs |->
                                   IF l[1] = cmd.branch THEN NoDoc ELSE st.docs[l]],
                               events   |-> st.events],
                      out |-> Ok("Unit", None)]
           [] cmd.name = "TxnBegin"  -> [st |-> st, out |-> Ok("TxnBegun", None)]
           [] cmd.name = "TxnCommit" -> [st |-> st, out |-> Ok("TxnCommitted", None)]
           [] cmd.name = "TxnAbort"  -> [st |-> st, out |-> Ok("TxnAborted", None)]
           [] cmd.name = "Info" ->
                [st |-> st, out |-> Ok("DatabaseInfo", Cardinality(st.branches))]
           [] cmd.name = "EmbedStatus" -> [st |-> st, out |-> Ok("EmbedStatus", FALSE)]
           [] cmd.name \in ServiceCommands \ {"RetentionApply"} ->
                [st |-> st, out |-> Ok(ServiceOutput(cmd.name), None)]
           [] cmd.branch \notin st.branches -> fail
           [] cmd.name = "RetentionApply" ->
                [st |-> st, out |-> Ok(ServiceOutput(cmd.name), None)]
           [] cmd.name = "JsonSet" ->
                LET v == Len(st.docs[loc].vals) + 1 IN
                [st  |-> [st EXCEPT !.docs[loc] =
                              [vals |-> Append(@.vals,
                                               VersionedValue(cmd.arg, v, Timestamp(st, v))),
                               live |-> TRUE]],
                 out |-> Ok("Version", v)]
           [] cmd.name = "JsonDelete" ->
                [st  |-> [st EXCEPT !.docs[loc].live = FALSE],
                 out |-> Ok("Uint", IF st.docs[loc].live THEN 1 ELSE 0)]
           [] cmd.name = "EventAppend" ->
                [st  |-> [st EXCEPT !.events = @ + 1],
                 out |-> Ok("Version", st.events + 1)]
           [] cmd.name = "JsonGet" ->
                [st  |-> st,
                 out |-> Ok("MaybeVersioned",
                            IF st.docs[loc].live
                            THEN <<st.docs[loc].vals[Len(st.docs[loc].vals)]>>
                            ELSE <<>>)]
           [] cmd.name = "JsonGetv" ->
                [st |-> st, out |-> Ok("VersionedValues", st.docs[loc].vals)]
           [] cmd.name = "Search" -> [st |-> st, out |-> Ok("SearchResults", None)]
           [] cmd.name = "TimeRange" ->
                [st |-> st, out |-> Ok("TimeRange", st.events)]

\* branches().fork(src, dst): dst becomes a copy of src.
StoreFork(st, src, dst, resp) ==
    IF resp # "ok" \/ src \notin st.branches \/ dst \in st.branches
    THEN [st |-> st, out |-> StoreError]
    ELSE [st  |-> [branches |-> st.branches \cup {dst},
                   docs     |-> [l \in Locs |->
                       IF l[1] = dst THEN st.docs[<<src, l[2], l[3]>>] ELSE st.docs[l]],
                   events   |-> st.events],
          out |-> Ok("ForkInfo", <<src, dst>>)]

\* branches().diff(a, b): reads both branches.
StoreDiff(st, a, b, resp) ==
    IF resp # "ok" \/ a \notin st.branches \/ b \notin st.branches
    THEN [st |-> st, out |-> StoreError]
    ELSE [st |-> st, out |-> Ok("BranchDiffResult", <<a, b>>)]

\* branches().merge(src, dst, LastWriterWins): dst takes every document src holds.
StoreMerge(st, src, dst, resp) ==
    IF resp # "ok" \/ src \notin st.branches \/ dst \notin st.branches
    THEN [st |-> st, out |-> StoreError]
    ELSE [st  |-> [st EXCEPT !.docs = [l \in Locs |->
                       IF l[1] = dst /\ st.docs[<<src, l[2], l[3]>>].vals # <<>>
                       THEN st.docs[<<src, l[2], l[3]>>] ELSE st.docs[l]]],
          out |-> Ok("MergeInfo", <<src, dst>>)]

\* The store can take the command without leaving the model's bounds.
WithinBounds(st, cmd) ==
    cmd.name \in {"JsonSet", "EventAppend"} =>
        TotalVersions(st, Locs) + st.events < MaxWrites

----------------------------------------------------------------------------
(* McpSession. *)

Session == [branch |-> branch, space |-> space, in_transaction |-> in_transaction]

\* A call forwarded to the store, with the store's answer.
Sent(cmd, out) == [cmd |-> cmd, out |-> out, via |-> "McpSession::execute"]

\* A command handed to the underlying session without McpSession::execute,
\* and a call of the store's branch API.
SentDirect(cmd, out) == [cmd |-> cmd, out |-> out, via |-> "session.execute"]
SentApi(call, out) == [cmd |-> call, out |-> out, via |-> "strata.branches"]

\* What one call leaves behind: its result, the session fields, the store and
\* the calls forwarded to the store.
Step(res, sess, st, log) == [st |-> st, res |-> res, sess |-> sess, log |-> log]

\* McpSession::check_write_access: the error a write gets on a read-only store.
AccessDenied(operation) == Err("Strata", "ACCESS_DENIED", operation)

\* A guard that lets every write through.
check_write_access_Open(ro) == TRUE

check_write_access(ro) == ~ro

\* The match without its TxnCommitted arm.
TrackTransaction_NoCommit(out, cur) ==
    CASE out.kind = "TxnBegun" -> TRUE
      [] out.kind = "TxnAborted" -> FALSE
      [] OTHER -> cur

\* The match with a default arm that clears the flag.
TrackTransaction_ResetOther(out, cur) ==
    CASE out.kind = "TxnBegun" -> TRUE
      [] OTHER -> FALSE

\* The match with a TxnBegun arm that flips the flag.
TrackTransaction_Toggle(out, cur) ==
    CASE out.kind = "TxnBegun" -> ~cur
      [] out.kind \in {"TxnCommitted", "TxnAborted"} -> FALSE
      [] OTHER -> cur

\* The match on the output in McpSession::execute.
TrackTransaction(out, cur) ==
    CASE out.kind = "TxnBegun" -> TRUE
      [] out.kind \in {"TxnCommitted", "TxnAborted"} -> FALSE
      [] OTHER -> cur

\* An execute that gives the transaction up when the store fails a command.
execute_AbortOnError(sess, st, cmd, resp) ==
    IF IsWrite(cmd) /\ ~check_write_access(readOnly)
    THEN Step(AccessDenied(cmd.name), sess, st, <<>>)
    ELSE LET r == StoreExecute(st, cmd, resp) IN
         IF ~r.out.ok
         THEN Step(r.out, [sess EXCEPT !.in_transaction = FALSE], r.st,
                   <<Sent(cmd, r.out)>>)
         ELSE Step(r.out,
                   [sess EXCEPT !.in_transaction = TrackTransaction(r.out, @)],
                   r.st, <<Sent(cmd, r.out)>>)

\* An execute that sends a command the store failed a second time.
execute_Retrying(sess, st, cmd, resp) ==
    IF IsWrite(cmd) /\ ~check_write_access(readOnly)
    THEN Step(AccessDenied(cmd.name), sess, st, <<>>)
    ELSE LET r == StoreExecute(st, cmd, resp) IN
         IF ~r.out.ok
         THEN LET again == StoreExecute(r.st, cmd, "ok") IN
              Step(again.out,
                   [sess EXCEPT !.in_transaction = TrackTransaction(again.out, @)],
                   again.st, <<Sent(cmd, r.out), Sent(cmd, again.out)>>)
         ELSE Step(r.out,
                   [sess EXCEPT !.in_transaction = TrackTransaction(r.out, @)],
                   r.st, <<Sent(cmd, r.out)>>)

\* McpSession::execute.
execute(sess, st, cmd, resp) ==
    IF IsWrite(cmd) /\ ~check_write_access(readOnly)
    THEN Step(AccessDenied(cmd.name), sess, st, <<>>)
    ELSE LET r == StoreExecute(st, cmd, resp) IN
         IF ~r.out.ok
         THEN Step(r.out, sess, r.st, <<Sent(cmd, r.out)>>)
         ELSE Step(r.out,
                   [sess EXCEPT !.in_transaction = TrackTransaction(r.out, @)],
                   r.st, <<Sent(cmd, r.out)>>)

\* A switch that updates the field before it looks at the check's answer.
switch_branch_Eager(sess, st, name, resp) ==
    LET cmd == Cmd("BranchExists", name, None, None)
        r   == StoreExecute(st, cmd, resp)
        log == <<SentDirect(cmd, r.out)>>
        new == [sess EXCEPT !.branch = name]
    IN
    IF ~r.out.ok THEN Step(r.out, sess, r.st, log)
    ELSE IF r.out.kind # "Bool"
    THEN Step(Err("Internal", None, "Unexpected output for BranchExists"),
              sess, r.st, log)
    ELSE IF ~r.out.val
    THEN Step(Err("BranchNotFound", None, name), new, r.st, log)
    ELSE Step(Ok("Unit", None), new, r.st, log)

\* A switch that trusts the store's answer whatever it says.
switch_branch_Unchecked(sess, st, name, resp) ==
    LET cmd == Cmd("BranchExists", name, None, None)
        r   == StoreExecute(st, cmd, resp)
        log == <<SentDirect(cmd, r.out)>>
    IN
    IF ~r.out.ok THEN Step(r.out, sess, r.st, log)
    ELSE Step(Ok("Unit", None), [sess EXCEPT !.branch = name], r.st, log)

\* A switch that closes the open transaction when it moves the session.
switch_branch_Resetting(sess, st, name, resp) ==
    LET cmd == Cmd("BranchExists", name, None, None)
        r   == StoreExecute(st, cmd, resp)
        log == <<SentDirect(cmd, r.out)>>
    IN
    IF ~r.out.ok THEN Step(r.out, sess, r.st, log)
    ELSE IF r.out.kind # "Bool"
    THEN Step(Err("Internal", None, "Unexpected output for BranchExists"),
              sess, r.st, log)
    ELSE IF ~r.out.val
    THEN Step(Err("BranchNotFound", None, name), sess, r.st, log)
    ELSE Step(Ok("Unit", None),
              [branch |-> name, space |-> sess.space, in_transaction |-> FALSE],
              r.st, log)

\* A switch that writes the name into the space field.
switch_branch_Space(sess, st, name, resp) ==
    LET cmd == Cmd("BranchExists", name, None, None)
        r   == StoreExecute(st, cmd, resp)
        log == <<SentDirect(cmd, r.out)>>
    IN
    IF ~r.out.ok THEN Step(r.out, sess, r.st, log)
    ELSE IF r.out.kind # "Bool"
    THEN Step(Err("Internal", None, "Unexpected output for BranchExists"),
              sess, r.st, log)
    ELSE IF ~r.out.val
    THEN Step(Err("BranchNotFound", None, name), sess, r.st, log)
    ELSE Step(Ok("Unit", None), [sess EXCEPT !.space = name], r.st, log)

\* McpSession::switch_branch.
switch_branch(sess, st, name, resp) ==
    LET cmd == Cmd("BranchExists", name, None, None)
        r   == StoreExecute(st, cmd, resp)
        log == <<SentDirect(cmd, r.out)>>
    IN
    IF ~r.out.ok THEN Step(r.out, sess, r.st, log)
    ELSE IF r.out.kind # "Bool"
    THEN Step(Err("Internal", None, "Unexpected output for BranchExists"),
              sess, r.st, log)
    ELSE IF ~r.out.val
    THEN Step(Err("BranchNotFound", None, name), sess, r.st, log)
    ELSE Step(Ok("Unit", None), [sess EXCEPT !.branch = name], r.st, log)

\* A switch_space that writes the branch field.
switch_space_Branch(sess, st, name) ==
    Step(Ok("Unit", None), [sess EXCEPT !.branch = name], st, <<>>)

\* McpSession::switch_space.
switch_space(sess, st, name) ==
    Step(Ok("Unit", None), [sess EXCEPT !.space = name], st, <<>>)

\* A fork that also moves the session to the new branch.
fork_branch_Switching(sess, st, destination, resp) ==
    IF ~check_write_access(readOnly)
    THEN Step(AccessDenied("BranchFork"), sess, st, <<>>)
    ELSE LET r == StoreFork(st, sess.branch, destination, resp) IN
         Step(r.out,
              IF r.out.ok THEN [sess EXCEPT !.branch = destination] ELSE sess,
              r.st,
              <<SentApi(ApiCall("branches.fork", sess.branch, destination), r.out)>>)

\* McpSession::fork_branch.
fork_branch(sess, st, destination, resp) ==
    IF ~check_write_access(readOnly)
    THEN Step(AccessDenied("BranchFork"), sess, st, <<>>)
    ELSE LET r == StoreFork(st, sess.branch, destination, resp) IN
         Step(r.out, sess, r.st,
              <<SentApi(ApiCall("branches.fork", sess.branch, destination), r.out)>>)

\* A diff behind the guard of the writes.
diff_branches_Guarded(sess, st, branch_a, branch_b, resp) ==
    IF ~check_write_access(readOnly)
    THEN Step(AccessDenied("BranchDiff"), sess, st, <<>>)
    ELSE LET r == StoreDiff(st, branch_a, branch_b, resp) IN
         Step(r.out, sess, r.st,
              <<SentApi(ApiCall("branches.diff", branch_a, branch_b), r.out)>>)

\* McpSession::diff_branches.
diff_branches(sess, st, branch_a, branch_b, resp) ==
    LET r == StoreDiff(st, branch_a, branch_b, resp) IN
    Step(r.out, sess, r.st, <<SentApi(ApiCall("branches.diff", branch_a, branch_b), r.out)>>)

\* stratadb::MergeStrategy.
MergeStrategies == {"LastWriterWins", "Strict"}

\* A call of branches().merge(source, target, strategy).
MergeCall(source, target, strategy) ==
    [ApiCall("branches.merge", source, target) EXCEPT !.key = strategy]

\* A merge with its two branches exchanged: the current branch into the named one.
merge_branch_Reversed(sess, st, source, strategy, resp) ==
    IF ~check_write_access(readOnly)
    THEN Step(AccessDenied("BranchMerge"), sess, st, <<>>)
    ELSE LET r == StoreMerge(st, sess.branch, source, resp) IN
         Step(r.out, sess, r.st,
              <<SentApi(MergeCall(sess.branch, source, strategy), r.out)>>)

\* McpSession::merge_branch.
merge_branch(sess, st, source, strategy, resp) ==
    IF ~check_write_access(readOnly)
    THEN Step(AccessDenied("BranchMerge"), sess, st, <<>>)
    ELSE LET r == StoreMerge(st, source, sess.branch, resp) IN
         Step(r.out, sess, r.st,
              <<SentApi(MergeCall(source, sess.branch, strategy), r.out)>>)

----------------------------------------------------------------------------
(* The value codec (src/src/convert.rs): serde_json::Value and stratadb::Value. *)

\* i64::MIN, i64::MAX and u64::MAX at the model's width.
I64Min == -(2 ^ (IntBits - 1))
I64Max == 2 ^ (IntBits - 1) - 1
U64Max == 2 ^ IntBits - 1

\* A float: n, or n + 1/2 when half.
Flt(n, half) == [n |-> n, half |-> half]

\* The magnitudes of the integer-valued floats: a mantissa of MantissaBits
\* bits times a power of two.
Representable(k) ==
    \E m \in 0..(2 ^ MantissaBits - 1), e \in 0..IntBits : k = m * 2 ^ e
EvenMantissa(k) ==
    \E m \in (2 ^ (MantissaBits - 1))..(2 ^ MantissaBits - 1), e \in 0..IntBits :
        k = m * 2 ^ e /\ m % 2 = 0

Abs(n) == IF n < 0 THEN -n ELSE n

\* n as f64: the nearest float, a tie going to the even mantissa.
RoundToFloat(n) ==
    LET a     == Abs(n)
        cands == {k \in 0..(2 ^ IntBits) : Representable(k)}
        best  == {k \in cands : \A k2 \in cands : Abs(k - a) <= Abs(k2 - a)}
        pick  == IF Cardinality(best) = 1 THEN CHOOSE k \in best : TRUE
                 ELSE CHOOSE k \in best : EvenMantissa(k)
    IN Flt(IF n < 0 THEN -pick ELSE pick, FALSE)

\* A node of a JSON value or of a Value: its tag t and, by tag, a boolean b,
\* a number n (n + 1/2 when half) in the form form, a string str, the
\* elements items of an array, or the members fields of an object, a
\* sequence of [key, val] in key order.
Node(t, b, form, n, half, str, items, fields) ==
    [n |-> n, b |-> b, half |-> half, t |-> t, form |-> form, str |-> str,
     items |-> items, fields |-> fields]

\* serde_json::Value.  A number is a PosInt (u64), a NegInt (negative i64) or
\* a Float.
JNull == Node("Null", FALSE, "", 0, FALSE, "", <<>>, <<>>)
JBool(b) == Node("Bool", b, "", 0, FALSE, "", <<>>, <<>>)
JPosInt(n) == Node("Number", FALSE, "PosInt", n, FALSE, "", <<>>, <<>>)
JNegInt(n) == Node("Number", FALSE, "NegInt", n, FALSE, "", <<>>, <<>>)
JFloat(f) == Node("Number", FALSE, "Float", f.n, f.half, "", <<>>, <<>>)
JString(str) == Node("String", FALSE, "", 0, FALSE, str, <<>>, <<>>)
JArray(arr) == Node("Array", FALSE, "", 0, FALSE, "", arr, <<>>)
JObject(map) == Node("Object", FALSE, "", 0, FALSE, "", <<>>, map)

\* A number neither as_i64 nor as_f64 answers for: one beyond the range of
\* f64, which a serde_json built with arbitrary precision can hold.
JHuge == Node("Number", FALSE, "Huge", 0, FALSE, "", <<>>, <<>>)

\* stratadb::Value, for the variants JSON decodes to.
VNull == Node("Null", FALSE, "", 0, FALSE, "", <<>>, <<>>)
VBool(b) == Node("Bool", b, "", 0, FALSE, "", <<>>, <<>>)
VInt(i) == Node("Int", FALSE, "", i, FALSE, "", <<>>, <<>>)
VFloat(f) == Node("Float", FALSE, "", f.n, f.half, "", <<>>, <<>>)
VString(str) == Node("String", FALSE, "", 0, FALSE, str, <<>>, <<>>)
VArray(arr) == Node("Array", FALSE, "", 0, FALSE, "", arr, <<>>)
VObject(map) == Node("Object", FALSE, "", 0, FALSE, "", <<>>, map)

\* A member of an object.
Member(key, val) == [key |-> key, val |-> val]

\* Number::as_i64 and Number::as_f64: <<>> for None.
as_i64(num) ==
    IF num.form = "NegInt" \/ (num.form = "PosInt" /\ num.n <= I64Max)
    THEN <<num.n>> ELSE <<>>

\* A conversion to f64 that answers for every number, the largest float for
\* one beyond the range.
as_f64_Saturating(num) ==
    IF num.form = "Huge" THEN <<Flt(2 ^ IntBits, FALSE)>>
    ELSE IF num.form = "Float" THEN <<Flt(num.n, num.half)>>
    ELSE <<RoundToFloat(num.n)>>

as_f64(num) ==
    IF num.form = "Huge" THEN <<>>
    ELSE IF num.form = "Float" THEN <<Flt(num.n, num.half)>>
    ELSE <<RoundToFloat(num.n)>>

NumberOutOfRange(name) == Err("InvalidArg", "Number out of range", name)

\* json_to_value.
RECURSIVE json_to_value(_)
json_to_value(json) ==
    CASE json.t = "Null" -> Ok("Value", VNull)
      [] json.t = "Bool" -> Ok("Value", VBool(json.b))
      [] json.t = "Number" ->
            IF as_i64(json) # <<>> THEN Ok("Value", VInt(as_i64(json)[1]))
            ELSE IF as_f64(json) # <<>> THEN Ok("Value", VFloat(as_f64(json)[1]))
            ELSE NumberOutOfRange("value")
      [] json.t = "String" -> Ok("Value", VString(json.str))
      [] json.t = "Array" ->
            LET values == [i \in DOMAIN json.items |-> json_to_value(json.items[i])] IN
            IF \E i \in DOMAIN values : ~values[i].ok
            THEN NumberOutOfRange("value")
            ELSE Ok("Value", VArray([i \in DOMAIN values |-> values[i].val]))
      [] json.t = "Object" ->
            LET values == [i \in DOMAIN json.fields |->
                              json_to_value(json.fields[i].val)] IN
            IF \E i \in DOMAIN values : ~values[i].ok
            THEN NumberOutOfRange("value")
            ELSE Ok("Value", VObject([i \in DOMAIN values |->
                                         Member(json.fields[i].key, values[i].val)]))

\* value_to_json: stratadb's Into<serde_json::Value>.  An Int becomes a
\* NegInt or a PosInt by its sign, a Float a Float.
RECURSIVE value_to_json(_)
value_to_json(value) ==
    CASE value.t = "Null" -> JNull
      [] value.t = "Bool" -> JBool(value.b)
      [] value.t = "Int" -> IF value.n < 0 THEN JNegInt(value.n) ELSE JPosInt(value.n)
      [] value.t = "Float" -> JFloat(Flt(value.n, value.half))
      [] value.t = "String" -> JString(value.str)
      [] value.t = "Array" ->
            JArray([i \in DOMAIN value.items |-> value_to_json(value.items[i])])
      [] value.t = "Object" ->
            JObject([i \in DOMAIN value.fields |->
                        Member(value.fields[i].key, value_to_json(value.fields[i].val))])

----------------------------------------------------------------------------
(* Argument extraction (src/src/convert.rs) and the curated tools. *)

\* An argument of the JSON parameter map: absent, present with a type the
\* helper does not take, or a string.
Absent == "<absent>"
WrongType == "<wrong type>"

\* get_string_arg: and_then(as_str) turns a non-string into None as well.
get_string_arg(v, name) ==
    IF v \in {Absent, WrongType} THEN Err("MissingArg", None, name)
    ELSE Ok("String", v)

\* get_optional_string.
get_optional_string(v) == IF v \in {Absent, WrongType} THEN None ELSE v

\* get_value_arg: the argument (<<>> when absent, <<json>> when present) must
\* be there and json_to_value must take it.
get_value_arg(v, name) ==
    IF v = <<>> THEN Err("MissingArg", None, name)
    ELSE json_to_value(v[1])

\* A conversion that keeps the value of a VersionedValue only.
versioned_to_json_Bare(vv) == value_to_json(vv.value)

\* versioned_to_json: the object {timestamp, value, version}.
versioned_to_json(vv) ==
    JObject(<<Member("timestamp", JPosInt(vv.timestamp)),
              Member("value", value_to_json(vv.value)),
              Member("version", JPosInt(vv.version))>>)

\* output_to_json, for the outputs the curated data tools can be handed.
output_to_json(output) ==
    CASE output.kind = "Unit" -> JNull
      [] output.kind = "MaybeVersioned" ->
            IF output.val = <<>> THEN JNull ELSE versioned_to_json(output.val[1])
      [] output.kind = "Version" -> JObject(<<Member("version", JPosInt(output.val))>>)
      [] output.kind = "Bool" -> JBool(output.val)
      [] output.kind = "Uint" -> JPosInt(output.val)
      [] output.kind = "VersionedValues" ->
            JArray([i \in DOMAIN output.val |-> versioned_to_json(output.val[i])])

\* The JSON value a handler returns.
Json(json) == Ok("Json", json)

\* A failed step of a handler: the error, nothing else changed, nothing sent.
Fail(e, sess, st) == Step(e, sess, st, <<>>)

\* The handler's result once its command has run: an error passes through,
\* an output is shaped by the handler.
Shaped(r, res) == IF r.res.ok THEN [r EXCEPT !.res = res] ELSE r

\* A store tool that hands its command to the underlying session itself.
dispatch_store_Direct(sess, st, args, resp) ==
    LET key   == get_string_arg(args.key, "key")
        value == get_value_arg(args.value, "value")
    IN
    IF ~key.ok THEN Fail(key, sess, st)
    ELSE IF ~value.ok THEN Fail(value, sess, st)
    ELSE LET cmd == [Cmd("JsonSet", sess.branch, sess.space, key.val)
                        EXCEPT !.arg = value.val]
             r   == StoreExecute(st, cmd, resp)
         IN Step(IF ~r.out.ok THEN r.out
                 ELSE IF r.out.kind = "Version"
                 THEN Json(JObject(<<Member("key", JString(key.val)),
                                     Member("stored", JBool(TRUE)),
                                     Member("version", JPosInt(r.out.val))>>))
                 ELSE Json(output_to_json(r.out)),
                 sess, r.st, <<SentDirect(cmd, r.out)>>)

\* dispatch_store.
dispatch_store(sess, st, args, resp) ==
    LET key   == get_string_arg(args.key, "key")
        value == get_value_arg(args.value, "value")
    IN
    IF ~key.ok THEN Fail(key, sess, st)
    ELSE IF ~value.ok THEN Fail(value, sess, st)
    ELSE LET cmd == [Cmd("JsonSet", sess.branch, sess.space, key.val)
                        EXCEPT !.arg = value.val]
             r   == execute(sess, st, cmd, resp)
         IN Shaped(r, IF r.res.kind = "Version"
                      THEN Json(JObject(<<Member("key", JString(key.val)),
                                          Member("stored", JBool(TRUE)),
                                          Member("version", JPosInt(r.res.val))>>))
                      ELSE Json(output_to_json(r.res)))

\* A recall tool that deletes what it reads.
dispatch_recall_Consuming(sess, st, args, resp) ==
    LET key == get_string_arg(args.key, "key") IN
    IF ~key.ok THEN Fail(key, sess, st)
    ELSE LET r == execute(sess, st, Cmd("JsonGet", sess.branch, sess.space, key.val), resp)
             d == StoreExecute(r.st, Cmd("JsonDelete", sess.branch, sess.space, key.val),
                               "ok")
         IN Shaped([r EXCEPT !.st = IF r.res.ok THEN d.st ELSE r.st],
                   Json(output_to_json(r.res)))

\* dispatch_recall.
dispatch_recall(sess, st, args, resp) ==
    LET key == get_string_arg(args.key, "key") IN
    IF ~key.ok THEN Fail(key, sess, st)
    ELSE LET r == execute(sess, st, Cmd("JsonGet", sess.branch, sess.space, key.val), resp)
         IN Shaped(r, Json(output_to_json(r.res)))

\* A search tool that always searches the default branch.
dispatch_search_DefaultBranch(sess, st, args, resp) ==
    LET query == get_string_arg(args.key, "query") IN
    IF ~query.ok THEN Fail(query, sess, st)
    ELSE execute(sess, st, Cmd("Search", DefaultBranch, sess.space, None), resp)

dispatch_search(sess, st, args, resp) ==
    LET query == get_string_arg(args.key, "query") IN
    IF ~query.ok THEN Fail(query, sess, st)
    ELSE execute(sess, st, Cmd("Search", sess.branch, sess.space, None), resp)

\* A forget tool that reports a deletion whatever the count.
dispatch_forget_Always(sess, st, args, resp) ==
    LET key == get_string_arg(args.key, "key") IN
    IF ~key.ok THEN Fail(key, sess, st)
    ELSE LET r == execute(sess, st, Cmd("JsonDelete", sess.branch, sess.space, key.val), resp)
         IN Shaped(r, IF r.res.kind = "Uint"
                      THEN Json(JObject(<<Member("deleted", JBool(r.res.val >= 0))>>))
                      ELSE Json(output_to_json(r.res)))

\* dispatch_forget.
dispatch_forget(sess, st, args, resp) ==
    LET key == get_string_arg(args.key, "key") IN
    IF ~key.ok THEN Fail(key, sess, st)
    ELSE LET r == execute(sess, st, Cmd("JsonDelete", sess.branch, sess.space, key.val), resp)
         IN Shaped(r, IF r.res.kind = "Uint"
                      THEN Json(JObject(<<Member("deleted", JBool(r.res.val > 0))>>))
                      ELSE Json(output_to_json(r.res)))

\* A log tool that appends the event before it looks at its data argument.
dispatch_log_Late(sess, st, args, resp) ==
    LET event == get_string_arg(args.key, "event")
        data  == get_value_arg(args.value, "data")
    IN
    IF ~event.ok THEN Fail(event, sess, st)
    ELSE LET r == execute(sess, st, Cmd("EventAppend", sess.branch, sess.space, None), resp)
         IN IF ~data.ok THEN [r EXCEPT !.res = data]
            ELSE Shaped(r, IF r.res.kind = "Version"
                           THEN Json(JObject(<<Member("logged", JBool(TRUE)),
                                               Member("sequence", JPosInt(r.res.val))>>))
                           ELSE Json(output_to_json(r.res)))

dispatch_log(sess, st, args, resp) ==
    LET event == get_string_arg(args.key, "event")
        data  == get_value_arg(args.value, "data")
    IN
    IF ~event.ok THEN Fail(event, sess, st)
    ELSE IF ~data.ok THEN Fail(data, sess, st)
    ELSE LET r == execute(sess, st, Cmd("EventAppend", sess.branch, sess.space, None), resp)
         IN Shaped(r, IF r.res.kind = "Version"
                      THEN Json(JObject(<<Member("logged", JBool(TRUE)),
                                          Member("sequence", JPosInt(r.res.val))>>))
                      ELSE Json(output_to_json(r.res)))

dispatch_history(sess, st, args, resp) ==
    LET key == get_optional_string(args.key) IN
    IF key # None
    THEN LET r == execute(sess, st, Cmd("JsonGetv", sess.branch, sess.space, key), resp)
         IN Shaped(r, Json(output_to_json(r.res)))
    ELSE LET r == execute(sess, st, Cmd("TimeRange", sess.branch, None, None), resp)
         IN Shaped(r, IF r.res.kind = "TimeRange"
                      THEN Ok("BranchTimeRange", <<r.sess.branch, r.res.val>>)
                      ELSE Json(output_to_json(r.res)))

\* The status object: the database's fields (<<>> when Info returned another
\* output), the session's branch and namespace, and the auto_embed field
\* (<<>> when it was not inserted).
StatusObject(info, sess, auto_embed) ==
    Ok("Status", [branch |-> sess.branch, info |-> info, auto_embed |-> auto_embed,
                  namespace |-> sess.space])

\* A status tool that passes a failure of its second command on.
dispatch_status_Strict(sess, st, resp, resp2) ==
    LET r1 == execute(sess, st, Cmd("Info", None, None, None), resp) IN
    IF ~r1.res.ok THEN r1
    ELSE LET r2 == execute(r1.sess, r1.st, Cmd("EmbedStatus", None, None, None), resp2)
         IN IF ~r2.res.ok THEN Step(r2.res, r2.sess, r2.st, r1.log \o r2.log)
            ELSE Step(StatusObject(<<r1.res.val>>, r1.sess, <<r2.res.val>>),
                      r2.sess, r2.st, r1.log \o r2.log)

\* dispatch_status: Info, then EmbedStatus, whose failure is tolerated.
dispatch_status(sess, st, resp, resp2) ==
    LET r1 == execute(sess, st, Cmd("Info", None, None, None), resp) IN
    IF ~r1.res.ok THEN r1
    ELSE LET info == IF r1.res.kind = "DatabaseInfo" THEN <<r1.res.val>> ELSE <<>>
             r2 == execute(r1.sess, r1.st, Cmd("EmbedStatus", None, None, None), resp2)
             auto_embed == IF r2.res.ok /\ r2.res.kind = "EmbedStatus"
                           THEN <<r2.res.val>> ELSE <<>>
         IN Step(StatusObject(info, r1.sess, auto_embed),
                 r2.sess, r2.st, r1.log \o r2.log)

BranchActions == {"create", "switch", "list", "fork", "merge", "diff", "delete"}

\* The reason of the error an unknown action gets.
UnknownAction(other) ==
    "Unknown action '" \o other
        \o "'. Use: create, switch, list, fork, merge, diff, or delete."

\* A branch tool that lists the branches when it does not know the action.
dispatch_branch_Lenient(sess, st, args, resp) ==
    LET action == get_string_arg(args.action, "action")
        name   == get_string_arg(args.name, "name")
        source == get_string_arg(args.name, "source")
        compare == get_string_arg(args.name, "compare")
    IN
    IF ~action.ok THEN Fail(action, sess, st)
    ELSE CASE action.val = "create" ->
                execute(sess, st,
                        Cmd("BranchCreate", get_optional_string(args.name), None, None),
                        resp)
           [] action.val = "switch" ->
                IF ~name.ok THEN Fail(name, sess, st)
                ELSE Shaped(switch_branch(sess, st, name.val, resp),
                            Ok("Switched", name.val))
           [] action.val = "list" ->
                execute(sess, st, Cmd("BranchList", None, None, None), resp)
           [] action.val = "fork" ->
                IF ~name.ok THEN Fail(name, sess, st)
                ELSE LET r == fork_branch(sess, st, name.val, resp) IN
                     Shaped(r, Ok("Forked", r.res.val))
           [] action.val = "merge" ->
                IF ~source.ok THEN Fail(source, sess, st)
                ELSE LET r == merge_branch(sess, st, source.val, "LastWriterWins", resp) IN
                     Shaped(r, Ok("Merged", r.res.val))
           [] action.val = "diff" ->
                IF ~compare.ok THEN Fail(compare, sess, st)
                ELSE LET r == diff_branches(sess, st, sess.branch, compare.val, resp) IN
                     Shaped(r, Ok("Diff", r.res.val))
           [] action.val = "delete" ->
                IF ~name.ok THEN Fail(name, sess, st)
                ELSE execute(sess, st, Cmd("BranchDelete", name.val, None, None), resp)
           [] OTHER ->
                execute(sess, st, Cmd("BranchList", None, None, None), resp)

\* dispatch_branch.
dispatch_branch(sess, st, args, resp) ==
    LET action == get_string_arg(args.action, "action")
        name   == get_string_arg(args.name, "name")
        source == get_string_arg(args.name, "source")
        compare == get_string_arg(args.name, "compare")
    IN
    IF ~action.ok THEN Fail(action, sess, st)
    ELSE CASE action.val = "create" ->
                execute(sess, st,
                        Cmd("BranchCreate", get_optional_string(args.name), None, None),
                        resp)
           [] action.val = "switch" ->
                IF ~name.ok THEN Fail(name, sess, st)
                ELSE Shaped(switch_branch(sess, st, name.val, resp),
                            Ok("Switched", name.val))
           [] action.val = "list" ->
                execute(sess, st, Cmd("BranchList", None, None, None), resp)
           [] action.val = "fork" ->
                IF ~name.ok THEN Fail(name, sess, st)
                ELSE LET r == fork_branch(sess, st, name.val, resp) IN
                     Shaped(r, Ok("Forked", r.res.val))
           [] action.val = "merge" ->
                IF ~source.ok THEN Fail(source, sess, st)
                ELSE LET r == merge_branch(sess, st, source.val, "LastWriterWins", resp) IN
                     Shaped(r, Ok("Merged", r.res.val))
           [] action.val = "diff" ->
                IF ~compare.ok THEN Fail(compare, sess, st)
                ELSE LET r == diff_branches(sess, st, sess.branch, compare.val, resp) IN
                     Shaped(r, Ok("Diff", r.res.val))
           [] action.val = "delete" ->
                IF ~name.ok THEN Fail(name, sess, st)
                ELSE execute(sess, st, Cmd("BranchDelete", name.val, None, None), resp)
           [] OTHER ->
                Fail(Err("InvalidArg", UnknownAction(action.val), "action"), sess, st)

ToolNames == {"strata_store", "strata_recall", "strata_search", "strata_forget",
              "strata_log", "strata_branch", "strata_history", "strata_status"}

\* agent::tools(): the names of the tool definitions the curated registry lists.
agent_tools == {"strata_store", "strata_recall", "strata_search", "strata_forget",
                "strata_log", "strata_branch", "strata_history", "strata_status"}

\* A dispatch whose match has lost its strata_status arm.
dispatch_NoStatus(sess, st, name, args, resp, resp2) ==
    CASE name = "strata_store"   -> dispatch_store(sess, st, args, resp)
      [] name = "strata_recall"  -> dispatch_recall(sess, st, args, resp)
      [] name = "strata_search"  -> dispatch_search(sess, st, args, resp)
      [] name = "strata_forget"  -> dispatch_forget(sess, st, args, resp)
      [] name = "strata_log"     -> dispatch_log(sess, st, args, resp)
      [] name = "strata_branch"  -> dispatch_branch(sess, st, args, resp)
      [] name = "strata_history" -> dispatch_history(sess, st, args, resp)
      [] OTHER -> Fail(Err("UnknownTool", None, name), sess, st)

\* agent::dispatch.
dispatch(sess, st, name, args, resp, resp2) ==
    CASE name = "strata_store"   -> dispatch_store(sess, st, args, resp)
      [] name = "strata_recall"  -> dispatch_recall(sess, st, args, resp)
      [] name = "strata_search"  -> dispatch_search(sess, st, args, resp)
      [] name = "strata_forget"  -> dispatch_forget(sess, st, args, resp)
      [] name = "strata_log"     -> dispatch_log(sess, st, args, resp)
      [] name = "strata_branch"  -> dispatch_branch(sess, st, args, resp)
      [] name = "strata_history" -> dispatch_history(sess, st, args, resp)
      [] name = "strata_status"  -> dispatch_status(sess, st, resp, resp2)
      [] OTHER -> Fail(Err("UnknownTool", None, name), sess, st)

----------------------------------------------------------------------------
(* The developer registry (src/src/tools/mod.rs) and the modules it routes to. *)

\* name.starts_with(prefix).
StartsWith(name, prefix) ==
    Len(name) >= Len(prefix) /\ SubSeq(name, 1, Len(prefix)) = prefix

\* A routing that asks for the underscore after strata_embed, as most of the
\* other rules do.
developer_route_Underscore(name) ==
    IF StartsWith(name, "strata_db_") THEN "database"
    ELSE IF StartsWith(name, "strata_kv_") THEN "kv"
    ELSE IF StartsWith(name, "strata_state_") THEN "state"
    ELSE IF StartsWith(name, "strata_event_") THEN "event"
    ELSE IF StartsWith(name, "strata_json_") THEN "json"
    ELSE IF StartsWith(name, "strata_space_") THEN "space"
    ELSE IF StartsWith(name, "strata_branch_") THEN "branch"
    ELSE IF StartsWith(name, "strata_vector_") THEN "vector"
    ELSE IF StartsWith(name, "strata_txn_") THEN "txn"
    ELSE IF StartsWith(name, "strata_search") THEN "search"
    ELSE IF StartsWith(name, "strata_configure_") THEN "config"
    ELSE IF StartsWith(name, "strata_bundle_") THEN "bundle"
    ELSE IF StartsWith(name, "strata_retention_") THEN "retention"
    ELSE IF StartsWith(name, "strata_embed_") THEN "embed"
    ELSE IF \/ StartsWith(name, "strata_generate")
            \/ StartsWith(name, "strata_tokenize")
            \/ StartsWith(name, "strata_detokenize") THEN "inference"
    ELSE IF StartsWith(name, "strata_models_") THEN "models"
    ELSE IF StartsWith(name, "strata_durability_") THEN "durability"
    ELSE None

\* The prefix rules of ToolRegistry::dispatch in developer mode, in their
\* order: the module a name is handed to, None when no rule matches.
developer_route(name) ==
    IF StartsWith(name, "strata_db_") THEN "database"
    ELSE IF StartsWith(name, "strata_kv_") THEN "kv"
    ELSE IF StartsWith(name, "strata_state_") THEN "state"
    ELSE IF StartsWith(name, "strata_event_") THEN "event"
    ELSE IF StartsWith(name, "strata_json_") THEN "json"
    ELSE IF StartsWith(name, "strata_space_") THEN "space"
    ELSE IF StartsWith(name, "strata_branch_") THEN "branch"
    ELSE IF StartsWith(name, "strata_vector_") THEN "vector"
    ELSE IF StartsWith(name, "strata_txn_") THEN "txn"
    ELSE IF StartsWith(name, "strata_search") THEN "search"
    ELSE IF StartsWith(name, "strata_configure_") THEN "config"
    ELSE IF StartsWith(name, "strata_bundle_") THEN "bundle"
    ELSE IF StartsWith(name, "strata_retention_") THEN "retention"
    ELSE IF StartsWith(name, "strata_embed") THEN "embed"
    ELSE IF \/ StartsWith(name, "strata_generate")
            \/ StartsWith(name, "strata_tokenize")
            \/ StartsWith(name, "strata_detokenize") THEN "inference"
    ELSE IF StartsWith(name, "strata_models_") THEN "models"
    ELSE IF StartsWith(name, "strata_durability_") THEN "durability"
    ELSE None

\* The tool names each module registers (its tools()).
embed_tools == {"strata_embed", "strata_embed_batch", "strata_embed_status"}
inference_tools == {"strata_generate", "strata_tokenize", "strata_detokenize",
                    "strata_generate_unload"}
models_tools == {"strata_models_list", "strata_models_pull", "strata_models_local"}
retention_tools == {"strata_retention_apply"}
durability_tools == {"strata_durability_counters"}

\* An array argument: absent (<<>>) or present (<<v>>) and not an array, an
\* array with an element of the wrong type, or an array of the elements the
\* helper takes.
GoodArray == "<array>"
BadElement == "<array with a wrong element>"

\* inference::get_u32_array.
get_u32_array(v, name) ==
    IF v \in {<<>>, <<WrongType>>} THEN Err("MissingArg", None, name)
    ELSE IF v = <<BadElement>> THEN Err("InvalidArg", "Expected array of integers", name)
    ELSE Ok("Array", v[1])

\* The texts argument of strata_embed_batch.
get_texts(v) ==
    IF v \in {<<>>, <<WrongType>>} THEN Err("MissingArg", None, "texts")
    ELSE IF v = <<BadElement>> THEN Err("InvalidArg", "Expected array of strings", "texts")
    ELSE Ok("Array", v[1])

\* A command of a service tool: it carries no branch, space or key.
ServiceCmd(n) == Cmd(n, None, None, None)

\* embed::dispatch.
embed_dispatch(sess, st, name, args, resp) ==
    CASE name = "strata_embed" ->
            LET text == get_string_arg(args.key, "text") IN
            IF ~text.ok THEN Fail(text, sess, st)
            ELSE execute(sess, st, ServiceCmd("Embed"), resp)
      [] name = "strata_embed_batch" ->
            LET texts == get_texts(args.value) IN
            IF ~texts.ok THEN Fail(texts, sess, st)
            ELSE execute(sess, st, ServiceCmd("EmbedBatch"), resp)
      [] name = "strata_embed_status" ->
            execute(sess, st, ServiceCmd("EmbedStatus"), resp)
      [] OTHER -> Fail(Err("UnknownTool", None, name), sess, st)

\* inference::dispatch.  The optional arguments of strata_generate and
\* strata_tokenize only fill fields of the command.
inference_dispatch(sess, st, name, args, resp) ==
    LET model == get_string_arg(args.name, "model") IN
    CASE name = "strata_generate" ->
            LET prompt == get_string_arg(args.key, "prompt") IN
            IF ~model.ok THEN Fail(model, sess, st)
            ELSE IF ~prompt.ok THEN Fail(prompt, sess, st)
            ELSE execute(sess, st, ServiceCmd("Generate"), resp)
      [] name = "strata_tokenize" ->
            LET text == get_string_arg(args.key, "text") IN
            IF ~model.ok THEN Fail(model, sess, st)
            ELSE IF ~text.ok THEN Fail(text, sess, st)
            ELSE execute(sess, st, ServiceCmd("Tokenize"), resp)
      [] name = "strata_detokenize" ->
            LET ids == get_u32_array(args.value, "ids") IN
            IF ~model.ok THEN Fail(model, sess, st)
            ELSE IF ~ids.ok THEN Fail(ids, sess, st)
            ELSE execute(sess, st, ServiceCmd("Detokenize"), resp)
      [] name = "strata_generate_unload" ->
            IF ~model.ok THEN Fail(model, sess, st)
            ELSE execute(sess, st, ServiceCmd("GenerateUnload"), resp)
      [] OTHER -> Fail(Err("UnknownTool", None, name), sess, st)

\* models::dispatch.
models_dispatch(sess, st, name, args, resp) ==
    CASE name = "strata_models_list" ->
            execute(sess, st, ServiceCmd("ModelsList"), resp)
      [] name = "strata_models_pull" ->
            LET name_arg == get_string_arg(args.name, "name") IN
            IF ~name_arg.ok THEN Fail(name_arg, sess, st)
            ELSE execute(sess, st, ServiceCmd("ModelsPull"), resp)
      [] name = "strata_models_local" ->
            execute(sess, st, ServiceCmd("ModelsLocal"), resp)
      [] OTHER -> Fail(Err("UnknownTool", None, name), sess, st)

\* retention::dispatch.
retention_dispatch(sess, st, name, args, resp) ==
    CASE name = "strata_retention_apply" ->
            execute(sess, st, Cmd("RetentionApply", sess.branch, None, None), resp)
      [] OTHER -> Fail(Err("UnknownTool", None, name), sess, st)

\* durability::dispatch.
durability_dispatch(sess, st, name, args, resp) ==
    CASE name = "strata_durability_counters" ->
            execute(sess, st, ServiceCmd("DurabilityCounters"), resp)
      [] OTHER -> Fail(Err("UnknownTool", None, name), sess, st)

\* The modules whose dispatch the source holds.
SourceModules == {"embed", "inference", "models", "retention", "durability"}

\* ToolRegistry::dispatch of the developer registry, for the names it hands to
\* one of SourceModules or to no module.
developer_dispatch(sess, st, name, args, resp) ==
    LET module == developer_route(name) IN
    CASE module = "retention"  -> retention_dispatch(sess, st, name, args, resp)
      [] module = "embed"      -> embed_dispatch(sess, st, name, args, resp)
      [] module = "inference"  -> inference_dispatch(sess, st, name, args, resp)
      [] module = "models"     -> models_dispatch(sess, st, name, args, resp)
      [] module = "durability" -> durability_dispatch(sess, st, name, args, resp)
      [] module = None         -> Fail(Err("UnknownTool", None, name), sess, st)

----------------------------------------------------------------------------
(* Calls on the session. *)

Responses == {"ok", "err"}

\* The commands a caller hands to McpSession::execute: data commands carry
\* branch_id() and space_id(), branch commands the branch they name.
Commands ==
    {Cmd(n, branch, space, k) : n \in {"JsonSet", "JsonGet", "JsonDelete", "JsonGetv"},
                                k \in Keys}
    \cup {Cmd(n, branch, space, None) : n \in {"EventAppend", "Search"}}
    \cup {Cmd("TimeRange", branch, None, None)}
    \cup {Cmd(n, b, None, None) : n \in {"BranchExists", "BranchDelete"},
                                  b \in BranchNames}
    \cup {Cmd("BranchCreate", b, None, None) : b \in BranchNames \cup {None}}
    \cup {Cmd(n, None, None, None) :
              n \in {"BranchList", "Info", "EmbedStatus"} \cup TxnCommands}

\* The arguments of a tool call: the branch tool's action and its name, source
\* or compare; a data tool's key, query or event; its value or data.
Args(action, name, key, value) ==
    [name |-> name, key |-> key, value |-> value, action |-> action]
NoArgs == Args(None, None, None, <<>>)

\* A call of a session method, and a call of a tool through the registry.
Call(op, cmd, name) ==
    [name |-> name, cmd |-> cmd, args |-> NoArgs, op |-> op, tool |-> None]
ToolCall(tool, args) ==
    [name |-> None, cmd |-> NoCmd, args |-> args, op |-> "dispatch", tool |-> tool]

StringArgs(vals) == vals \cup {Absent, WrongType}

\* The value arguments a caller sends: none (<<>>), the object {"x": 1}, or a
\* number json_to_value has no Value for.
ValueArgs == {<<>>, <<JObject(<<Member("x", JPosInt(1))>>)>>, <<JHuge>>}

\* Action values the branch tool does not know: a word that is no action, and
\* an action in another case.
OtherActions == {"bogus", "Create"}

\* The parameter maps a caller sends with a tool name.
ArgsOf(tool) ==
    CASE tool \in {"strata_store"} ->
            {Args(None, None, k, v) : k \in StringArgs(Keys), v \in ValueArgs}
      [] tool = "strata_log" ->
            {Args(None, None, k, v) : k \in StringArgs({"e"}), v \in ValueArgs}
      [] tool \in {"strata_recall", "strata_forget", "strata_history"} ->
            {Args(None, None, k, <<>>) : k \in StringArgs(Keys)}
      [] tool = "strata_search" ->
            {Args(None, None, k, <<>>) : k \in StringArgs({"q"})}
      [] tool = "strata_branch" ->
            {Args(a, n, None, <<>>) : a \in BranchActions \ {"list"},
                                      n \in StringArgs(BranchNames)}
            \cup {Args(a, Absent, None, <<>>) : a \in StringArgs({"list"} \cup OtherActions)}
      [] OTHER -> {NoArgs}

\* Progress along the sequences Begin, write, Commit (1, 2, 3) and Begin,
\* Abort (1, 4) of successful execute calls, started with no transaction open.
PhaseAfter(ph, cmd, res, before) ==
    IF ~res.ok THEN 0
    ELSE IF cmd.name = "TxnBegin" /\ res.kind = "TxnBegun" /\ ~before THEN 1
    ELSE IF ph = 1 /\ cmd.name \in DataWriteCommands
                  /\ res.kind \notin TxnBoundaryOutputs THEN 2
    ELSE IF ph = 2 /\ cmd.name = "TxnCommit" /\ res.kind = "TxnCommitted" THEN 3
    ELSE IF ph = 1 /\ cmd.name = "TxnAbort" /\ res.kind = "TxnAborted" THEN 4
    ELSE 0

\* The state a call leaves: r is what the method computed.
Effect(call, r, ph) ==
    /\ branch' = r.sess.branch
    /\ space' = r.sess.space
    /\ in_transaction' = r.sess.in_transaction
    /\ store' = r.st
    /\ lastCall' = call
    /\ lastResult' = r.res
    /\ storeLog' = r.log
    /\ phase' = ph
    /\ UNCHANGED <<readOnly, txnIsWrite>>

\* A call made on the session directly, no request loop involved.
Apply(call, r, ph) ==
    /\ Effect(call, r, ph)
    /\ UNCHANGED inflight

\* Every command the call forwards is within the model's bounds.
Admissible(r) == \A i \in DOMAIN r.log : WithinBounds(store, r.log[i].cmd)

\* The responses the store can give to the first and to the second command of
\* a call, r0 being the call as it runs when the store serves every command:
\* a response is chosen only for a command that reaches the store.
FirstResponses(r0) ==
    IF Len(r0.log) = 0 THEN {"ok"}
    ELSE IF r0.log[1].cmd.name \in {"BranchExists", "Info"} THEN Responses \cup {"odd"}
    ELSE Responses
SecondResponses(r0, resp) ==
    IF Len(r0.log) < 2 \/ resp = "err" THEN {"ok"} ELSE Responses \cup {"odd"}

\* The transaction commands.
TxnCmds == {Cmd(n, None, None, None) : n \in TxnCommands}

ExecuteOf(cmds) ==
    \E cmd \in cmds :
      \E resp \in FirstResponses(execute(Session, store, cmd, "ok")) :
        LET r == execute(Session, store, cmd, resp) IN
        /\ Admissible(r)
        /\ Apply(Call("execute", cmd, None), r,
                 PhaseAfter(phase, cmd, r.res, in_transaction))

\* McpSession::execute of any command, and of a transaction command.
Execute == ExecuteOf(Commands)
Transact == ExecuteOf(TxnCmds)

\* ToolRegistry::dispatch of the curated registry.
\* Names a caller may send that the curated registry does not list: a name of
\* no tool at all, and the name of a developer tool.
OtherNames == {"strata_bogus", "strata_embed"}

\* One run of dispatch on the session, from its first statement to its return.
RunOf(tool, args) ==
    LET r0 == dispatch(Session, store, tool, args, "ok", "ok") IN
    \E resp \in FirstResponses(r0) :
      \E resp2 \in SecondResponses(r0, resp) :
        LET r == dispatch(Session, store, tool, args, resp, resp2) IN
        /\ Admissible(r)
        /\ Effect(ToolCall(tool, args), r, 0)

Dispatch ==
    \E tool \in ToolNames \cup OtherNames :
      \E args \in ArgsOf(tool) :
        /\ RunOf(tool, args)
        /\ UNCHANGED inflight

\* The server's request loop over one session.  A request is read from the
\* transport, dispatch runs on it, and the response is written.
Request(call, done) == [call |-> call, done |-> done]

\* The most requests a transport that read ahead could hold.
MaxInflight == 2

ReadRequest_Pipelined ==
    /\ Len(inflight) < MaxInflight
    /\ \E tool \in ToolNames \cup OtherNames :
         \E args \in ArgsOf(tool) :
           inflight' = Append(inflight, Request(ToolCall(tool, args), FALSE))
    /\ UNCHANGED <<branch, space, in_transaction, readOnly, txnIsWrite, store,
                   lastCall, lastResult, storeLog, phase>>

\* The loop reads the next request once the one before it is answered.
ReadRequest ==
    /\ inflight = <<>>
    /\ \E tool \in ToolNames \cup OtherNames :
         \E args \in ArgsOf(tool) :
           inflight' = <<Request(ToolCall(tool, args), FALSE)>>
    /\ UNCHANGED <<branch, space, in_transaction, readOnly, txnIsWrite, store,
                   lastCall, lastResult, storeLog, phase>>

\* ToolRegistry::dispatch holds the session by exclusive reference for the
\* whole of one request.
RunDispatch ==
    \E i \in DOMAIN inflight :
      /\ ~inflight[i].done
      /\ RunOf(inflight[i].call.tool, inflight[i].call.args)
      /\ inflight' = [inflight EXCEPT ![i] = Request(inflight[i].call, TRUE)]

\* The response of a finished request is written and the request is dropped.
Respond ==
    /\ inflight # <<>>
    /\ inflight[1].done
    /\ inflight' = Tail(inflight)
    /\ UNCHANGED <<branch, space, in_transaction, readOnly, txnIsWrite, store,
                   lastCall, lastResult, storeLog, phase>>

\* The names the modules of SourceModules register, and the module that
\* registers each.
DeveloperTools ==
    embed_tools \cup inference_tools \cup models_tools \cup retention_tools
        \cup durability_tools
RegisteredBy(name) ==
    CASE name \in embed_tools -> "embed"
      [] name \in inference_tools -> "inference"
      [] name \in models_tools -> "models"
      [] name \in retention_tools -> "retention"
      [] name \in durability_tools -> "durability"

\* The commands the handlers of each module build.
ModuleCommands(module) ==
    CASE module = "embed" -> {"Embed", "EmbedBatch", "EmbedStatus"}
      [] module = "inference" -> {"Generate", "Tokenize", "Detokenize", "GenerateUnload"}
      [] module = "models" -> {"ModelsList", "ModelsPull", "ModelsLocal"}
      [] module = "retention" -> {"RetentionApply"}
      [] module = "durability" -> {"DurabilityCounters"}

\* Names no module registers: names no rule matches (a curated tool's name
\* among them) and names a rule matches that the routed module does not know.
DeveloperOtherNames ==
    {"strata_bogus", "strata_store", "strata_durability",
     "strata_embedding", "strata_generate_stream", "strata_models_delete",
     "strata_retention_"}

ArrayArgs == {<<GoodArray>>, <<BadElement>>, <<WrongType>>, <<>>}

\* The parameter maps a caller sends with a developer tool's name.
DeveloperArgsOf(tool) ==
    CASE tool = "strata_embed" ->
            {Args(None, None, k, <<>>) : k \in StringArgs({"t"})}
      [] tool = "strata_embed_batch" ->
            {Args(None, None, None, v) : v \in ArrayArgs}
      [] tool \in {"strata_generate", "strata_tokenize"} ->
            {Args(None, n, k, <<>>) : n \in StringArgs({"m"}), k \in StringArgs({"t"})}
      [] tool = "strata_detokenize" ->
            {Args(None, n, None, v) : n \in StringArgs({"m"}), v \in ArrayArgs}
      [] tool \in {"strata_generate_unload", "strata_models_pull"} ->
            {Args(None, n, None, <<>>) : n \in StringArgs({"m"})}
      [] OTHER -> {NoArgs}

DeveloperCall(tool, args) ==
    [name |-> None, cmd |-> NoCmd, args |-> args, op |-> "developer_dispatch",
     tool |-> tool]

\* ToolRegistry::dispatch of the developer registry.
DeveloperDispatch ==
    \E tool \in DeveloperTools \cup DeveloperOtherNames :
      \E args \in DeveloperArgsOf(tool) :
        \E resp \in FirstResponses(developer_dispatch(Session, store, tool, args, "ok")) :
          LET r == developer_dispatch(Session, store, tool, args, resp) IN
          /\ Admissible(r)
          /\ Apply(DeveloperCall(tool, args), r, 0)

\* The floats of an integer width the codec is given: the integer-valued ones
\* and one half.
Floats(bits) ==
    {Flt(k, FALSE) : k \in {k \in 0..(2 ^ bits) : Representable(k)}}
    \cup {Flt(-k, FALSE) : k \in {k \in 1..(2 ^ bits) : Representable(k)}}
    \cup {Flt(0, TRUE)}

\* The sequences of at most len elements of S, and the maps of at most len of
\* the keys k1, k2 to elements of S.
SeqsUpTo(S, len) == UNION {[1..n -> S] : n \in 0..len}
KeyLists == {<<>>, <<"k1">>, <<"k2">>, <<"k1", "k2">>}
MapsUpTo(S, len) ==
    UNION {{[i \in 1..Len(ks) |-> Member(ks[i], f[i])] : f \in [1..Len(ks) -> S]} :
              ks \in {ks \in KeyLists : Len(ks) <= len}}

\* The JSON values and the Values the codec is given: every scalar of the
\* integer width, and the arrays and objects of at most len elements, an
\* element being one of a few scalars or a nested array.
JsonScalars(bits) ==
    {JNull, JBool(TRUE), JBool(FALSE), JString("s"), JHuge}
    \cup {JPosInt(n) : n \in 0..(2 ^ bits - 1)}
    \cup {JNegInt(n) : n \in (-(2 ^ (bits - 1)))..(-1)}
    \cup {JFloat(f) : f \in Floats(bits)}
JsonElements(bits) ==
    {JNull, JString("s"), JHuge, JArray(<<JHuge>>), JPosInt(1), JPosInt(2 ^ bits - 1),
     JNegInt(-1), JFloat(Flt(0, TRUE))}
JsonValues(bits, len) ==
    JsonScalars(bits) \cup {JArray(a) : a \in SeqsUpTo(JsonElements(bits), len)}
                      \cup {JObject(m) : m \in MapsUpTo(JsonElements(bits), len)}
ValueScalars(bits) ==
    {VNull, VBool(TRUE), VBool(FALSE), VString("s")}
    \cup {VInt(i) : i \in (-(2 ^ (bits - 1)))..(2 ^ (bits - 1) - 1)}
    \cup {VFloat(f) : f \in Floats(bits)}
ValueElements(bits) ==
    {VNull, VString("s"), VArray(<<VInt(1)>>), VInt(2 ^ (bits - 1) - 1), VInt(-1),
     VFloat(Flt(0, TRUE))}
Values(bits, len) ==
    ValueScalars(bits) \cup {VArray(a) : a \in SeqsUpTo(ValueElements(bits), len)}
                       \cup {VObject(m) : m \in MapsUpTo(ValueElements(bits), len)}

\* A call of a codec function on input.
CodecCall(op, input) ==
    [name |-> None, cmd |-> NoCmd, args |-> NoArgs, op |-> op, tool |-> None,
     input |-> input]

\* The state a codec call leaves: the session and the store are not involved.
Returns(call, res) ==
    /\ lastCall' = call
    /\ lastResult' = res
    /\ UNCHANGED <<branch, space, in_transaction, readOnly, txnIsWrite, store,
                   storeLog, phase, inflight>>

\* json_to_value of a JSON value, and value_to_json of a Value.  The codec
\* functions read nothing but their input, so a behaviour applies one of
\* them once, to any input.
Decode ==
    /\ lastCall.op = None
    /\ \E json \in JsonValues(IntBits, MaxLen) :
           Returns(CodecCall("json_to_value", json), json_to_value(json))
Encode ==
    /\ lastCall.op = None
    /\ \E value \in Values(IntBits, MaxLen) :
           Returns(CodecCall("value_to_json", value), Ok("Json", value_to_json(value)))

\* The outputs output_to_json is given: the shapes the data commands answer
\* with, the versions and counts up to the store's capacity.
Outputs(writes) ==
    {Ok("Unit", None), Ok("MaybeVersioned", <<>>), Ok("VersionedValues", <<>>)}
    \cup {Ok("Version", v) : v \in 1..writes}
    \cup {Ok("Uint", n) : n \in 0..writes}
    \cup {Ok("Bool", b) : b \in BOOLEAN}
    \cup {Ok("MaybeVersioned", <<VersionedValue(value, v, Timestamp(InitStore, v))>>) :
              value \in ValueElements(IntBits), v \in 1..writes}
    \cup {Ok("VersionedValues",
              <<VersionedValue(value, v, Timestamp(InitStore, v))>>) :
              value \in ValueElements(IntBits), v \in 1..writes}

\* output_to_json of an output.
EncodeOutput ==
    /\ lastCall.op = None
    /\ \E output \in Outputs(MaxWrites) :
           Returns(CodecCall("output_to_json", output), Json(output_to_json(output)))

SwitchBranch ==
    \E name \in BranchNames :
      \E resp \in FirstResponses(switch_branch(Session, store, name, "ok")) :
        LET r == switch_branch(Session, store, name, resp) IN
        /\ Admissible(r)
        /\ Apply(Call("switch_branch", NoCmd, name), r, 0)

SwitchSpaceTo(name) ==
    LET r == switch_space(Session, store, name) IN
    /\ Admissible(r)
    /\ Apply(Call("switch_space", NoCmd, name), r, 0)

SwitchSpace == \E name \in SpaceNames : SwitchSpaceTo(name)

ForkBranch ==
    \E destination \in BranchNames :
      \E resp \in FirstResponses(fork_branch(Session, store, destination, "ok")) :
        LET r == fork_branch(Session, store, destination, resp) IN
        /\ Admissible(r)
        /\ Apply(Call("fork_branch", NoCmd, destination), r, 0)

DiffBranches ==
    \E branch_b \in BranchNames, resp \in Responses :
        LET r == diff_branches(Session, store, branch, branch_b, resp) IN
        /\ Admissible(r)
        /\ Apply(Call("diff_branches", NoCmd, branch_b), r, 0)

MergeBranch ==
    \E source \in BranchNames, strategy \in MergeStrategies :
      \E resp \in FirstResponses(merge_branch(Session, store, source, strategy, "ok")) :
        LET r == merge_branch(Session, store, source, strategy, resp) IN
        /\ Admissible(r)
        /\ Apply(Call("merge_branch", NoCmd, source), r, 0)

\* McpSession::new on a store opened read-write or read-only.  is_write() is
\* read only behind a read-only store, so a read-write store needs one value of it.
Init ==
    /\ branch = DefaultBranch
    /\ space = DefaultSpace
    /\ in_transaction = FALSE
    /\ readOnly \in BOOLEAN
    /\ txnIsWrite \in (IF readOnly THEN BOOLEAN ELSE {TRUE})
    /\ store = InitStore
    /\ lastCall = Call(None, NoCmd, None)
    /\ lastResult = NoResult
    /\ storeLog = <<>>
    /\ phase = 0
    /\ inflight = <<>>

Next ==
    \/ Execute
    \/ SwitchBranch
    \/ SwitchSpace
    \/ ForkBranch
    \/ DiffBranches
    \/ MergeBranch

\* Calls of the session's methods.
Spec == Init /\ [][Next]_vars

\* Tool calls through the curated registry.
SpecAgent == Init /\ [][Dispatch]_vars

\* Tool calls, with the transaction boundaries that only a caller of
\* McpSession::execute can reach.
NextMixed ==
    \/ Dispatch
    \/ Transact
SpecMixed == Init /\ [][NextMixed]_vars

\* Tool calls through the developer registry, inside and outside transactions.
NextDeveloper ==
    \/ DeveloperDispatch
    \/ Transact
SpecDeveloper == Init /\ [][NextDeveloper]_vars

\* Requests served by the server's loop through the curated registry.
NextServer ==
    \/ ReadRequest
    \/ RunDispatch
    \/ Respond
SpecServer == Init /\ [][NextServer]_vars

\* Calls of the value codec.
NextCodec ==
    \/ Decode
    \/ Encode
    \/ EncodeOutput
SpecCodec == Init /\ [][NextCodec]_vars

----------------------------------------------------------------------------
(* Properties. *)

\* The session fields.
context == <<branch, space, in_transaction>>

\* The store's answer to the one command a call forwarded says the branch exists.
CheckSaysExists(log) ==
    /\ Len(log) = 1
    /\ log[1].out.ok
    /\ log[1].out.kind = "Bool"
    /\ log[1].out.val
CheckSaysMissing(log) ==
    /\ Len(log) = 1
    /\ log[1].out.ok
    /\ log[1].out.kind = "Bool"
    /\ ~log[1].out.val

\* C1: along successful executes Begin, store write, Commit started with no
\* transaction open, in_transaction reads true after Begin, true after the
\* write and false after Commit; along Begin, Abort it reads true, then false.
C1_TransactionTracking ==
    /\ phase \in {1, 2} => in_transaction = TRUE
    /\ phase \in {3, 4} => in_transaction = FALSE

\* Begin, write, Commit have all succeeded, in that order.
C1_Witness == phase = 3 /\ lastResult.kind = "TxnCommitted"

\* C2: an execute that returns an output other than TxnBegun, TxnCommitted or
\* TxnAborted leaves in_transaction as it was.
C2_OtherOutputsKeepTransaction ==
    [][(/\ lastCall'.op = "execute"
        /\ lastResult'.ok
        /\ lastResult'.kind \notin TxnBoundaryOutputs)
       => in_transaction' = in_transaction]_vars

\* A command other than a transaction boundary has succeeded inside a transaction.
C2_Witness ==
    /\ lastCall.op = "execute"
    /\ lastResult.ok
    /\ lastResult.kind \notin TxnBoundaryOutputs
    /\ in_transaction

\* C3: after a successful execute, in_transaction is a function of the output
\* alone: true for TxnBegun, false for TxnCommitted and TxnAborted, the value
\* before for every other output.
C3_OutputDrivesTransaction ==
    [][(lastCall'.op = "execute" /\ lastResult'.ok)
       => in_transaction' =
              (IF lastResult'.kind = "TxnBegun" THEN TRUE
               ELSE IF lastResult'.kind \in {"TxnCommitted", "TxnAborted"} THEN FALSE
               ELSE in_transaction)]_vars

\* The store has answered TxnBegun while a transaction was already open.
C3_Witness ==
    /\ lastCall.op = "execute"
    /\ lastResult.ok
    /\ lastResult.kind = "TxnBegun"
    /\ phase = 0
    /\ in_transaction

\* C4: switch_branch(name), when the existence check reports that name does
\* not exist, returns BranchNotFound carrying name and leaves branch, space and
\* in_transaction as they were.
C4_SwitchToMissingBranch ==
    [][(lastCall'.op = "switch_branch" /\ CheckSaysMissing(storeLog'))
       => /\ ~lastResult'.ok
          /\ lastResult'.kind = "BranchNotFound"
          /\ lastResult'.val = lastCall'.name
          /\ UNCHANGED context]_vars

\* A switch to a branch the store does not hold has been refused.
C4_Witness ==
    /\ lastCall.op = "switch_branch"
    /\ lastResult.kind = "BranchNotFound"
    /\ lastCall.name \notin store.branches
    /\ branch # lastCall.name

\* C5: switch_branch(name) always issues BranchExists(name) first; it sets
\* branch to name exactly when that check returned true, and then leaves space
\* and in_transaction unchanged.
C5_SwitchOnlyAfterCheck ==
    [][lastCall'.op = "switch_branch"
       => /\ Len(storeLog') = 1
          /\ storeLog'[1].cmd = Cmd("BranchExists", lastCall'.name, None, None)
          /\ CheckSaysExists(storeLog')
                => /\ lastResult'.ok
                   /\ branch' = lastCall'.name
                   /\ UNCHANGED <<space, in_transaction>>
          /\ ~CheckSaysExists(storeLog')
                => /\ ~lastResult'.ok
                   /\ branch' = branch]_vars

\* A switch to a created branch has succeeded.
C5_Witness ==
    /\ lastCall.op = "switch_branch"
    /\ lastResult.ok
    /\ branch = lastCall.name
    /\ branch # DefaultBranch

\* C6: the session's current branch always names a branch the store holds.
C6_BranchAlwaysExists == branch \in store.branches

\* C7: on a read-only store, execute of a write command returns ACCESS_DENIED
\* carrying the command's name, forwards nothing and leaves the store as it was.
C7_ReadOnlyRejectsWrites ==
    [][(readOnly /\ lastCall'.op = "execute" /\ IsWrite(lastCall'.cmd))
       => /\ ~lastResult'.ok
          /\ lastResult'.kind = "Strata"
          /\ lastResult'.code = "ACCESS_DENIED"
          /\ lastResult'.val = lastCall'.cmd.name
          /\ storeLog' = <<>>
          /\ store' = store]_vars

\* A document write has been denied on a read-only store.
C7_Witness ==
    /\ readOnly
    /\ lastCall.op = "execute"
    /\ lastCall.cmd.name = "JsonSet"
    /\ ~lastResult.ok
    /\ lastResult.code = "ACCESS_DENIED"

\* C8: a call that returns an error leaves branch, space and in_transaction as
\* they were; so does a tool call the store fails during a transaction.
C8_ErrorLeavesContext ==
    [][~lastResult'.ok => UNCHANGED context]_vars

\* The store has failed a tool call during a transaction.
C8_Witness ==
    /\ lastCall.op = "dispatch"
    /\ ~lastResult.ok
    /\ lastResult.code = "STORE_ERROR"
    /\ in_transaction

\* C9: branch changes only in a successful switch_branch, space only in
\* switch_space, in_transaction only in an execute that returned a
\* transaction-boundary output; every other call leaves all three unchanged.
C9_ContextChangesOnlyExplicitly ==
    [][/\ branch' # branch
            => lastCall'.op = "switch_branch" /\ lastResult'.ok
       /\ space' # space
            => lastCall'.op = "switch_space"
       /\ in_transaction' # in_transaction
            => /\ lastCall'.op = "execute"
               /\ lastResult'.ok
               /\ lastResult'.kind \in TxnBoundaryOutputs]_vars

\* A fork from a session that has left the default context behind.
C9_Witness ==
    /\ lastCall.op = "fork_branch"
    /\ lastResult.ok
    /\ branch # lastCall.name
    /\ space # DefaultSpace
    /\ in_transaction

\* C10: switch_space(name) can be called with every name in every state; it
\* succeeds without a store call, sets space to name and leaves branch,
\* in_transaction and the store unchanged.
C10_SwitchSpaceUnchecked ==
    /\ [](\A name \in SpaceNames : ENABLED SwitchSpaceTo(name))
    /\ [][lastCall'.op = "switch_space"
          => /\ lastResult'.ok
             /\ storeLog' = <<>>
             /\ space' = lastCall'.name
             /\ UNCHANGED <<branch, in_transaction, store>>]_vars

\* The space has been switched inside a transaction on a created branch.
C10_Witness ==
    /\ lastCall.op = "switch_space"
    /\ space = "s1"
    /\ branch # DefaultBranch
    /\ in_transaction

\* C11: the status tool forwards Info first and EmbedStatus second.  When the
\* store fails Info the dispatch returns that error and EmbedStatus is never
\* forwarded; otherwise the dispatch succeeds, and its result carries
\* auto_embed exactly when EmbedStatus returned an EmbedStatus output.
C11_StatusToleratesSecondFailure ==
    [][lastCall'.tool = "strata_status"
       => /\ Len(storeLog') >= 1
          /\ storeLog'[1].cmd.name = "Info"
          /\ ~storeLog'[1].out.ok
                => /\ Len(storeLog') = 1
                   /\ lastResult' = storeLog'[1].out
          /\ storeLog'[1].out.ok
                => /\ Len(storeLog') = 2
                   /\ storeLog'[2].cmd.name = "EmbedStatus"
                   /\ lastResult'.ok
                   /\ lastResult'.kind = "Status"
                   /\ (lastResult'.val.auto_embed = <<>>)
                        <=> ~(storeLog'[2].out.ok
                                /\ storeLog'[2].out.kind = "EmbedStatus")]_vars

\* The store has served Info and failed EmbedStatus, and the status tool has
\* answered without auto_embed.
C11_Witness ==
    /\ lastCall.tool = "strata_status"
    /\ Len(storeLog) = 2
    /\ ~storeLog[2].out.ok
    /\ lastResult.ok
    /\ lastResult.val.auto_embed = <<>>

\* C12: the curated registry lists exactly the 8 names strata_store,
\* strata_recall, strata_search, strata_forget, strata_log, strata_branch,
\* strata_history and strata_status.  A dispatch of one of them reaches its
\* handler; a dispatch of any other name returns UnknownTool carrying the
\* name, forwards nothing to the store and changes neither the session nor
\* the store.
C12_CuratedExactMatch ==
    /\ [](/\ Cardinality(agent_tools) = 8
          /\ agent_tools = ToolNames)
    /\ [][lastCall'.op = "dispatch"
          => IF lastCall'.tool \in agent_tools
             THEN lastResult'.kind # "UnknownTool"
             ELSE /\ lastResult' = Err("UnknownTool", None, lastCall'.tool)
                  /\ storeLog' = <<>>
                  /\ UNCHANGED <<context, store>>]_vars

\* The name of a developer tool has been refused by the curated registry, on
\* a session that has moved to a created branch.
C12_Witness ==
    /\ lastCall.tool = "strata_embed"
    /\ lastResult.kind = "UnknownTool"
    /\ lastResult.val = "strata_embed"
    /\ branch # DefaultBranch

Contains(s, sub) ==
    \E i \in 1..Len(s) : i + Len(sub) - 1 <= Len(s) /\ SubSeq(s, i, i + Len(sub) - 1) = sub

\* C14: the branch tool takes the action values create, switch, list, fork,
\* merge, diff and delete, and no other: these seven never get the
\* unknown-action error, and every other action string returns InvalidArg for
\* the field action with a reason that names the value and lists the seven
\* actions, forwards nothing to the store and changes neither the session nor
\* the store.
C14_BranchActions ==
    [][(/\ lastCall'.tool = "strata_branch"
        /\ lastCall'.args.action \notin {Absent, WrongType})
       => LET valid == {"create", "switch", "list", "fork", "merge", "diff", "delete"} IN
          IF lastCall'.args.action \in valid
          THEN ~(lastResult'.kind = "InvalidArg" /\ lastResult'.val = "action")
          ELSE /\ ~lastResult'.ok
               /\ lastResult'.kind = "InvalidArg"
               /\ lastResult'.val = "action"
               /\ Contains(lastResult'.code, "'" \o lastCall'.args.action \o "'")
               /\ \A a \in valid : Contains(lastResult'.code, a)
               /\ storeLog' = <<>>
               /\ UNCHANGED <<context, store>>]_vars

\* An action written in another case has been refused on a created branch.
C14_Witness ==
    /\ lastCall.tool = "strata_branch"
    /\ lastCall.args.action = "Create"
    /\ lastResult.kind = "InvalidArg"
    /\ lastResult.val = "action"
    /\ branch # DefaultBranch

\* The required string argument each data tool extracts first.
RequiredField(tool) ==
    CASE tool \in {"strata_store", "strata_recall", "strata_forget"} -> "key"
      [] tool = "strata_search" -> "query"
      [] tool = "strata_log" -> "event"

\* C15: argument extraction tells absence from wrong type.  A required
\* argument that is absent yields MissingArg naming the field; an argument,
\* required or optional, that is present with the wrong JSON type yields
\* InvalidArg naming the field, never MissingArg and never the treatment an
\* absent argument gets.
C15_AbsentVersusWrongType ==
    [][lastCall'.op = "dispatch"
       => /\ lastCall'.tool \in {"strata_store", "strata_recall", "strata_forget",
                                 "strata_search", "strata_log"}
             => /\ lastCall'.args.key = Absent
                   => lastResult' = Err("MissingArg", None, RequiredField(lastCall'.tool))
                /\ lastCall'.args.key = WrongType
                   => /\ ~lastResult'.ok
                      /\ lastResult'.kind = "InvalidArg"
                      /\ lastResult'.val = RequiredField(lastCall'.tool)
          /\ (lastCall'.tool = "strata_history" /\ lastCall'.args.key = WrongType)
             => /\ ~lastResult'.ok
                /\ lastResult'.kind = "InvalidArg"
                /\ lastResult'.val = "key"]_vars

\* A handler got past its argument extraction.
ExtractionSucceeded(res) == res.kind \notin {"MissingArg", "InvalidArg", "UnknownTool"}

\* The command the handler of a tool or branch action builds.
HandlerCommand(tool, args) ==
    CASE tool = "strata_store" -> "JsonSet"
      [] tool = "strata_recall" -> "JsonGet"
      [] tool = "strata_search" -> "Search"
      [] tool = "strata_forget" -> "JsonDelete"
      [] tool = "strata_log" -> "EventAppend"
      [] tool = "strata_history" ->
            IF args.key \in {Absent, WrongType} THEN "TimeRange" ELSE "JsonGetv"
      [] tool = "strata_branch" /\ args.action = "create" -> "BranchCreate"
      [] tool = "strata_branch" /\ args.action = "list" -> "BranchList"
      [] tool = "strata_branch" /\ args.action = "delete" -> "BranchDelete"

\* C16 as claimed: every curated handler whose argument extraction succeeds
\* builds exactly one command and runs it through McpSession::execute (where
\* the read-only guard may stop it), whatever the tool and the branch action.
C16_OneCommandThroughExecute ==
    [][(/\ lastCall'.op = "dispatch"
        /\ lastCall'.tool \in agent_tools
        /\ ExtractionSucceeded(lastResult'))
       => IF lastResult'.code = "ACCESS_DENIED"
          THEN storeLog' = <<>>
          ELSE /\ Len(storeLog') = 1
               /\ storeLog'[1].via = "McpSession::execute"]_vars

\* C16 as amended: store, recall, search, forget, log, history and the branch
\* actions create, list and delete build one command and run it through
\* McpSession::execute, which refuses it exactly when it is a write on a
\* read-only store.  status runs two commands through execute, the second
\* unless the first failed.  The branch action switch hands one BranchExists
\* to the underlying session, outside execute.  fork, merge and diff make one
\* call of the store's branch API, fork and merge unless the store is
\* read-only.
C16_StoreCallsPerHandler ==
    [][(/\ lastCall'.op = "dispatch"
        /\ lastCall'.tool \in agent_tools
        /\ ExtractionSucceeded(lastResult'))
       => LET tool   == lastCall'.tool
              action == lastCall'.args.action
              log    == storeLog'
              denied == lastResult'.code = "ACCESS_DENIED"
          IN
          CASE tool = "strata_status" ->
                 /\ Len(log) \in {1, 2}
                 /\ \A i \in DOMAIN log : log[i].via = "McpSession::execute"
                 /\ Len(log) = 1 <=> ~log[1].out.ok
            [] tool = "strata_branch" /\ action = "switch" ->
                 /\ Len(log) = 1
                 /\ log[1].via = "session.execute"
                 /\ log[1].cmd.name = "BranchExists"
            [] tool = "strata_branch" /\ action \in {"fork", "merge", "diff"} ->
                 /\ denied <=> readOnly /\ action # "diff"
                 /\ IF denied THEN log = <<>>
                    ELSE /\ Len(log) = 1
                         /\ log[1].via = "strata.branches"
                         /\ log[1].cmd.name = "branches." \o action
            [] OTHER ->
                 /\ denied <=> /\ readOnly
                               /\ HandlerCommand(tool, lastCall'.args)
                                    \in DataWriteCommands \cup BranchWriteCommands
                 /\ IF denied THEN log = <<>>
                    ELSE /\ Len(log) = 1
                         /\ log[1].via = "McpSession::execute"
                         /\ log[1].cmd.name = HandlerCommand(tool, lastCall'.args)]_vars

\* The branch tool has forked the current branch through the store's branch API.
C16_Witness ==
    /\ lastCall.tool = "strata_branch"
    /\ lastCall.args.action = "fork"
    /\ lastResult.ok
    /\ Len(storeLog) = 1
    /\ storeLog[1].via = "strata.branches"

\* A dispatch step whose one command the store served with the output kind.
Served(call, log, kind) ==
    /\ call.op = "dispatch"
    /\ Len(log) = 1
    /\ log[1].out.ok
    /\ log[1].out.kind = kind

\* The results of the data tools.
StoredResult(key, version) ==
    Json(JObject(<<Member("key", JString(key)), Member("stored", JBool(TRUE)),
                   Member("version", JPosInt(version))>>))
DeletedResult(deleted) == Json(JObject(<<Member("deleted", JBool(deleted))>>))
IsRecalled(res, value, version) ==
    /\ res.ok
    /\ res.kind = "Json"
    /\ res.val.t = "Object"
    /\ Len(res.val.fields) = 3
    /\ res.val.fields[1].key = "timestamp"
    /\ res.val.fields[1].val.form = "PosInt"
    /\ res.val.fields[2] = Member("value", value)
    /\ res.val.fields[3] = Member("version", JPosInt(version))

\* C17: store(a, V), recall(a), forget(a), recall(a) on a read-write session
\* whose store serves each command return, in order,
\* {key: a, version: 1, stored: true}, {value: V, version: 1, timestamp: T},
\* {deleted: true} and null.  The first write of a key gets version 1; a
\* recall straight after that store returns the value stored, with version 1
\* and a timestamp; a forget straight after that recall returns
\* {deleted: true}; a recall straight after that forget returns null.
C17_StoreRecallForgetRecall ==
    [][LET call == lastCall'
           key  == lastCall'.args.key
           doc  == store.docs[<<branch, space, key>>]
           follows(tool) == /\ lastCall.op = "dispatch"
                            /\ lastCall.tool = tool
                            /\ lastCall.args.key = key
       IN
       /\ (/\ call.tool = "strata_store"
           /\ Served(call, storeLog', "Version")
           /\ doc.vals = <<>>)
          => lastResult' = StoredResult(key, 1)
       /\ (/\ call.tool = "strata_recall"
           /\ Served(call, storeLog', "MaybeVersioned")
           /\ follows("strata_store")
           /\ lastResult = StoredResult(key, 1))
          => IsRecalled(lastResult', lastCall.args.value[1], 1)
       /\ (/\ call.tool = "strata_forget"
           /\ Served(call, storeLog', "Uint")
           /\ follows("strata_recall")
           /\ lastResult.ok
           /\ lastResult # Json(JNull))
          => lastResult' = DeletedResult(TRUE)
       /\ (/\ call.tool = "strata_recall"
           /\ Served(call, storeLog', "MaybeVersioned")
           /\ follows("strata_forget")
           /\ lastResult = DeletedResult(TRUE))
          => lastResult' = Json(JNull)]_vars

\* The last recall of the sequence has answered null: the key a of the
\* default branch and space was written once, is deleted, and a recall of it
\* was served.
C17_Witness ==
    /\ ~readOnly
    /\ lastCall.tool = "strata_recall"
    /\ lastCall.args.key = "a"
    /\ Served(lastCall, storeLog, "MaybeVersioned")
    /\ lastResult = Json(JNull)
    /\ branch = DefaultBranch
    /\ space = DefaultSpace
    /\ ~store.docs[<<DefaultBranch, DefaultSpace, "a">>].live
    /\ Len(store.docs[<<DefaultBranch, DefaultSpace, "a">>].vals) = 1
    /\ store.docs[<<DefaultBranch, DefaultSpace, "a">>].vals[1].version = 1

\* C18: forget returns {deleted: b}, b being whether the count the store
\* reports is above 0, which it is exactly for a key that exists; the
\* deletion keeps the versions written before it, and a history query for
\* the key returns every one of them, also after the deletion.
C18_ForgetKeepsHistory ==
    [][LET call == lastCall'
           key  == lastCall'.args.key
           loc  == <<branch, space, key>>
       IN
       /\ (call.tool = "strata_forget" /\ Served(call, storeLog', "Uint"))
          => /\ lastResult' = DeletedResult(storeLog'[1].out.val > 0)
             /\ lastResult' = DeletedResult(store.docs[loc].live)
             /\ store'.docs[loc].vals = store.docs[loc].vals
             /\ ~store'.docs[loc].live
       /\ (call.tool = "strata_history" /\ Served(call, storeLog', "VersionedValues"))
          => lastResult' =
                Json(JArray([i \in DOMAIN store.docs[loc].vals |->
                                versioned_to_json(store.docs[loc].vals[i])]))]_vars

\* A history query has returned the version written to a key that has since
\* been forgotten.
C18_Witness ==
    /\ lastCall.tool = "strata_history"
    /\ lastCall.args.key = "a"
    /\ Served(lastCall, storeLog, "VersionedValues")
    /\ ~store.docs[<<branch, space, "a">>].live
    /\ lastResult.ok
    /\ Len(lastResult.val.items) = 1
    /\ lastResult.val.items[1].fields[3] = Member("version", JPosInt(1))

\* C19: recall is a pure read.  A recall changes neither the store nor the
\* session's branch, space and transaction flag, and a recall straight after
\* a recall of the same key, both served, returns the same output.
C19_RecallIsPureRead ==
    [][(lastCall'.op = "dispatch" /\ lastCall'.tool = "strata_recall")
       => /\ store' = store
          /\ branch' = branch
          /\ space' = space
          /\ in_transaction' = in_transaction
          /\ (/\ Served(lastCall', storeLog', "MaybeVersioned")
              /\ lastCall.tool = "strata_recall"
              /\ lastCall.args = lastCall'.args
              /\ Served(lastCall, storeLog, "MaybeVersioned"))
             => lastResult' = lastResult]_vars

\* A recall of a live key has returned its document.
C19_Witness ==
    /\ lastCall.tool = "strata_recall"
    /\ Served(lastCall, storeLog, "MaybeVersioned")
    /\ lastResult.ok
    /\ lastResult.val.t = "Object"
    /\ store.docs[<<branch, space, lastCall.args.key>>].live

\* A JSON value holds, at some depth, a number beyond the range of f64.
RECURSIVE HasHuge(_)
HasHuge(json) ==
    CASE json.t = "Number" -> json.form = "Huge"
      [] json.t = "Array" -> \E i \in DOMAIN json.items : HasHuge(json.items[i])
      [] json.t = "Object" -> \E i \in DOMAIN json.fields : HasHuge(json.fields[i].val)
      [] OTHER -> FALSE

C22_RawVersionIsNumber ==
    (lastCall.op = "output_to_json" /\ lastCall.input.kind = "Version")
       => lastResult = Json(JPosInt(lastCall.input.val))

\* A JSON value with every number reduced to its numeric value.
\* C23: requests on one session are served one at a time.  At most one
\* request is read and unanswered; the session fields and the store change
\* only in the run of dispatch on that one request, which finishes in the
\* same step; and a request is read only when none is in flight.
C23_OneRequestAtATime ==
    [][ /\ Len(inflight') <= 1
        /\ (<<context, store>>' # <<context, store>>)
             => /\ Len(inflight) = 1
                /\ ~inflight[1].done
                /\ inflight' = <<Request(inflight[1].call, TRUE)>>
                /\ lastCall' = inflight[1].call
        /\ (Len(inflight') > Len(inflight)) => inflight = <<>> ]_vars

\* A store request has run on the branch an earlier request switched to, and
\* is not yet answered.
C23_Witness ==
    /\ Len(inflight) = 1
    /\ inflight[1].done
    /\ inflight[1].call = lastCall
    /\ lastCall.tool = "strata_store"
    /\ lastResult.ok
    /\ branch # DefaultBranch

\* C24: the branch tool's fork, merge and diff act relative to the branch
\* the session is on when the call is made.  fork copies from the current
\* branch to the named one; merge applies the named source into the current
\* branch with strategy LastWriterWins; diff compares the current branch
\* (current_branch) with the named one (compare_branch).  None of them moves
\* the session.
C24_BranchDirections ==
    [][ LET call == lastCall'
            log  == storeLog'
            res  == lastResult'
            named == lastCall'.args.name
        IN
        (call.tool = "strata_branch" /\ log # <<>>
            /\ call.args.action \in {"fork", "merge", "diff"})
        => /\ Len(log) = 1
           /\ branch' = branch
           /\ call.args.action = "fork" =>
                /\ log[1].cmd = ApiCall("branches.fork", branch, named)
                /\ res.ok =>
                     /\ res = Ok("Forked", <<branch, named>>)
                     /\ \A s \in SpaceNames, k \in Keys :
                          /\ store'.docs[<<named, s, k>>] = store.docs[<<branch, s, k>>]
                          /\ store'.docs[<<branch, s, k>>] = store.docs[<<branch, s, k>>]
           /\ call.args.action = "merge" =>
                /\ log[1].cmd = MergeCall(named, branch, "LastWriterWins")
                /\ res.ok =>
                     /\ res = Ok("Merged", <<named, branch>>)
                     /\ \A s \in SpaceNames, k \in Keys :
                          /\ store'.docs[<<branch, s, k>>] =
                                IF store.docs[<<named, s, k>>].vals # <<>>
                                THEN store.docs[<<named, s, k>>]
                                ELSE store.docs[<<branch, s, k>>]
                          /\ named # branch =>
                                store'.docs[<<named, s, k>>] = store.docs[<<named, s, k>>]
           /\ call.args.action = "diff" =>
                /\ log[1].cmd = ApiCall("branches.diff", branch, named)
                /\ store' = store
                /\ res.ok => res = Ok("Diff", <<branch, named>>) ]_vars

\* A fork from the default branch has given the new branch the document the
\* default branch held, and the session is still on the default branch.
C24_Witness ==
    /\ lastCall.tool = "strata_branch"
    /\ lastCall.args.action = "fork"
    /\ lastResult = Ok("Forked", <<DefaultBranch, "b1">>)
    /\ branch = DefaultBranch
    /\ store.docs[<<"b1", DefaultSpace, "a">>].vals # <<>>

\* C25: an error of the store surfaces at once and nothing is retried.  The
\* store call that failed is the last one the dispatch made, its command was
\* sent that one time only, and the dispatch returns that error.  The one
\* exception is the second call of the status tool.
C25_ErrorsSurfaceOnce ==
    lastCall.tool # None =>
      \A i \in DOMAIN storeLog :
        ~storeLog[i].out.ok =>
          \/ lastCall.tool = "strata_status" /\ i = 2
          \/ /\ i = Len(storeLog)
             /\ lastResult = storeLog[i].out
             /\ \A j \in DOMAIN storeLog :
                  storeLog[j].cmd = storeLog[i].cmd => j = i

\* The store failed the JsonSet of a store call and the call returned the
\* store's error.
C25_Witness ==
    /\ lastCall.tool = "strata_store"
    /\ Len(storeLog) = 1
    /\ storeLog[1].cmd.name = "JsonSet"
    /\ ~storeLog[1].out.ok
    /\ lastResult = storeLog[1].out

\* C26: a dispatch that fails with MissingArg or InvalidArg, a value that
\* json_to_value rejects included, has sent nothing to the store and has
\* changed neither the store nor the session.
C26_ArgumentsFailFast ==
    [][ (lastCall'.tool # None /\ ~lastResult'.ok
            /\ lastResult'.kind \in {"MissingArg", "InvalidArg"})
        => /\ storeLog' = <<>>
           /\ store' = store
           /\ context' = context ]_vars

\* A store call whose key is good and whose value json_to_value rejects has
\* failed with InvalidArg.
C26_Witness ==
    /\ lastCall.tool = "strata_store"
    /\ lastCall.args.key \in Keys
    /\ lastCall.args.value = <<JHuge>>
    /\ lastResult = NumberOutOfRange("value")
    /\ storeLog = <<>>

\* The tools that read and write data.
DataTools == {"strata_store", "strata_recall", "strata_search", "strata_forget",
              "strata_log", "strata_history"}

\* C27 as stated: every command a data tool builds carries the session's
\* branch and the session's space.
C27_CommandsCarryBranchAndSpace ==
    [][ lastCall'.tool \in DataTools =>
          \A i \in DOMAIN storeLog' :
            /\ storeLog'[i].cmd.branch = branch
            /\ storeLog'[i].cmd.space = space ]_vars

\* C27: every command a data tool builds carries the branch the session is
\* on when the tool is dispatched, and the session's space, except the
\* TimeRange of a history call without key, which names a branch only.  A data
\* tool leaves the session where it is, a successful switch moves it to the
\* named branch and a failed switch leaves it, so the commands after a switch
\* carry the new branch or the old one accordingly.  The branch that status
\* and history without key report is the session's branch.
C27_CommandsCarrySessionContext ==
    [][ LET call == lastCall'
            log  == storeLog'
            res  == lastResult'
        IN
        /\ call.tool \in DataTools =>
              /\ context' = context
              /\ \A i \in DOMAIN log :
                    /\ log[i].cmd.branch = branch
                    /\ log[i].cmd.space =
                          IF log[i].cmd.name = "TimeRange" THEN None ELSE space
        /\ (call.tool = "strata_branch" /\ call.args.action = "switch") =>
              branch' = IF res.ok THEN call.args.name ELSE branch
        /\ (call.tool = "strata_status" /\ res.ok) =>
              /\ branch' = branch
              /\ res.val.branch = branch
        /\ (call.tool = "strata_history" /\ res.kind = "BranchTimeRange") =>
              res.val[1] = branch ]_vars

\* A recall on the branch b1 the session was switched to has sent the store
\* a command for b1 and the session's space.
C27_Witness ==
    /\ lastCall.tool = "strata_recall"
    /\ Len(storeLog) = 1
    /\ branch = "b1"
    /\ storeLog[1].cmd.branch = "b1"
    /\ storeLog[1].cmd.space = space

\* C28: a new session is on branch default, in space default, with no
\* transaction open, and whatever tools are dispatched through the curated
\* registry the space stays default and no transaction is ever open.
C28_CuratedSpaceAndTransaction ==
    /\ space = DefaultSpace
    /\ in_transaction = FALSE
    /\ lastCall.op = None => branch = DefaultBranch

\* After a switch to b1 and a successful store there, the session is still
\* in the default space with no transaction open.
C28_Witness ==
    /\ branch = "b1"
    /\ lastCall.tool = "strata_store"
    /\ lastResult.ok
    /\ storeLog # <<>>
    /\ space = DefaultSpace
    /\ ~in_transaction

\* C29: on a read-only session fork_branch and merge_branch return
\* ACCESS_DENIED naming BranchFork and BranchMerge and call nothing of the
\* store, while diff_branches, the existence check of switch_branch and every
\* command that is no write still reach the store.
C29_ReadOnlyBranchOperations ==
    [][ readOnly =>
          /\ lastCall'.op = "fork_branch" =>
                /\ lastResult' = AccessDenied("BranchFork")
                /\ storeLog' = <<>>
                /\ store' = store
          /\ lastCall'.op = "merge_branch" =>
                /\ lastResult' = AccessDenied("BranchMerge")
                /\ storeLog' = <<>>
                /\ store' = store
          /\ lastCall'.op = "diff_branches" =>
                /\ Len(storeLog') = 1
                /\ storeLog'[1].cmd = ApiCall("branches.diff", branch, lastCall'.name)
          /\ lastCall'.op = "switch_branch" =>
                /\ Len(storeLog') = 1
                /\ storeLog'[1].cmd = Cmd("BranchExists", lastCall'.name, None, None)
          /\ (lastCall'.op = "execute" /\ ~IsWrite(lastCall'.cmd)) =>
                /\ Len(storeLog') = 1
                /\ storeLog'[1].cmd = lastCall'.cmd ]_vars

\* A fork has been denied on a read-only session.
C29_Witness ==
    /\ readOnly
    /\ lastCall.op = "fork_branch"
    /\ lastResult = AccessDenied("BranchFork")
    /\ storeLog = <<>>

\* C30: switch_branch sends its existence check past execute's transaction
\* tracking.  A switch made while a transaction is open succeeds when the
\* branch exists, changes branch and nothing else, and leaves in_transaction
\* true; its check is sent on the underlying session.
C30_SwitchInsideTransaction ==
    [][ (in_transaction /\ lastCall'.op = "switch_branch")
        => /\ Len(storeLog') = 1
           /\ storeLog'[1].via = "session.execute"
           /\ in_transaction' = TRUE
           /\ space' = space
           /\ store' = store
           /\ CheckSaysExists(storeLog') =>
                /\ lastResult' = Ok("Unit", None)
                /\ branch' = lastCall'.name ]_vars

\* A switch to b1 has succeeded while a transaction is open, and the
\* transaction is still open.
C30_Witness ==
    /\ in_transaction
    /\ lastCall.op = "switch_branch"
    /\ lastCall.name = "b1"
    /\ lastResult.ok
    /\ branch = "b1"
    /\ phase = 0

RECURSIVE Numeric(_)
Numeric(json) ==
    CASE json.t = "Number" -> [json EXCEPT !.form = ""]
      [] json.t = "Array" ->
            JArray([i \in DOMAIN json.items |-> Numeric(json.items[i])])
      [] json.t = "Object" ->
            JObject([i \in DOMAIN json.fields |->
                        Member(json.fields[i].key, Numeric(json.fields[i].val))])
      [] OTHER -> json

\* C20: the value codec round-trips.  Decoding the encoding of a Value gives
\* the Value back; encoding the decoding of a JSON value that decodes gives a
\* JSON value with the same numbers, strings and structure, also for an
\* integer above the signed maximum that fits the unsigned width.
C20_CodecRoundTrip ==
    /\ lastCall.op = "value_to_json"
          => json_to_value(lastResult.val) = Ok("Value", lastCall.input)
    /\ (lastCall.op = "json_to_value" /\ lastResult.ok)
          => Numeric(value_to_json(lastResult.val)) = Numeric(lastCall.input)

====
